---- MODULE Spec2Model ----
(***************************************************************************)
(* A model of the verification request pipeline of nagrom:                 *)
(*   - RateLimiter (src/src/utils/rate_limiter.py), specification SpecRL,  *)
(*     SpecTB with the default bucket and no cooldown, SpecGate with the   *)
(*     cooldowns that refill a token, SpecWindow with the times of the     *)
(*     allowed checks of each guild                                        *)
(*   - ResponseValidator (src/src/models/verification.py), SpecV, and      *)
(*     SpecVC over reasonings made of citation tags                        *)
(*   - the fact-check queue and its workers (src/src/bot.py), SpecQ, FairQ *)
(*     (SpecQ under fair scheduling), SpecPool with the provider reloads   *)
(*     and the order of the jobs, SpecReconfig with the reloads of the     *)
(*     configuration commands, SpecShutdown with the worker tasks under    *)
(*     overlapping reloads and close                                       *)
(*   - the request handlers in front of the queue (src/src/commands/,      *)
(*     src/src/listeners/), SpecAdmit, and SpecRefuse for one requester    *)
(*     in front of a full queue                                            *)
(*   - create_llm_provider and analyze_text of the source-locked           *)
(*     providers (src/src/bot.py, src/src/llm/), SpecLLM, and FairLLM      *)
(*     (SpecLLM under fair scheduling)                                     *)
(*   - _parse_llm_response (src/src/llm/provider.py), SpecP, and SpecPC    *)
(*     for the confidence it returns                                       *)
(*   - _classify_tier (src/src/llm/provider.py), SpecT                     *)
(* Each part has its own specification; the variables of the other parts   *)
(* keep their initial values under it.                                     *)
(***************************************************************************)
EXTENDS Integers, Sequences, FiniteSets, TLC

VARIABLES
    \* ---- RateLimiter (src/src/utils/rate_limiter.py)
    now,                   \* the clock read by time.time() and by the TTLCache timer
    rate_limits,           \* RateLimitConfig: user_cooldown, bucket_tokens, daily_guild_limit
    bucket_refill_rate,    \* RateLimitConfig.bucket_refill_rate, tokens per second
    user_cooldowns,        \* TTLCache: sequence of [user, expires], oldest first
    token_buckets,         \* dict user -> <<tokens, last_update>>
    guild_usage,           \* dict guild -> count (absent key = 0, read by .get(g, 0))
    guild_usage_reset_ts,  \* timestamp of the last sweep
    check_ret,             \* what the last check call returned: <<allowed, reason>>
    check_hist,            \* history: what held when the last check was called
    last_allowed,          \* history: user -> time of the last allowed check (-1: none)
    allowed_since_reset,   \* history: guild -> allowed checks since the last sweep
    burst_hist,            \* history: per user, the allowed checks of this second
    \* ---- ResponseValidator (src/src/models/verification.py)
    v_sources,             \* len(provided_sources) of the validator
    v_in,                  \* the VerificationResult handed to validate
    v_out,                 \* the VerificationResult validate returned
    \* ---- NagromBot queue and workers (src/src/bot.py)
    fact_check_queue,      \* asyncio.Queue: the queued jobs, oldest first
    unfinished_tasks,      \* asyncio.Queue._unfinished_tasks
    worker_tasks,          \* _worker_tasks: task -> where it stands in the loop
    submit_calls,          \* submit_fact_check calls made; a job is named by its call
    submit_ret,            \* what the last submit_fact_check returned
    submit_hist,           \* history: the queue as that call found it
    last_caught,           \* history: the last exception a worker's handlers caught
    queue_log,             \* history: the jobs put on the queue, in the order of the puts
    dequeued,              \* history: <<worker, job>> of each get, in the order of the gets
    handed,                \* history: the jobs whose result was handed to delivery
    abandoned,             \* history: the jobs whose worker was cancelled while it held them
    \* ---- LLM provider (src/src/bot.py create_llm_provider, src/src/llm/)
    llm_config,            \* config.llm: provider, model, fallback_models
    llm,                   \* class of the provider the factory built, or its exception
    llm_pc,                \* where analyze_text stands
    llm_sources,           \* len(sources) of the call
    models_to_try,         \* the deduplicated chain
    model_idx,             \* position in the chain
    attempt,               \* attempt number for the model at model_idx
    last_error,            \* last_error of the chat-completions loop
    llm_result,            \* the VerificationResult analyze_text returned
    llm_succeeded,         \* history: a model attempt produced the result
    attempt_log,           \* history: the model calls made, with how each ended
    last_outcome,          \* history: what the latest model call came to
    last_content,          \* history: how the content of the latest call was unusable
    llm_retrieval,         \* history: what the retrieval of the analysis gave
    health_checks,         \* history: the calls of _check_health
    \* _parse_llm_response
    parse_in,              \* the raw text of the model
    parse_out,             \* what the call came to: the record or the exception
    conf_in,               \* the confidence of a raw text, and how the text gets parsed
    conf_out,              \* the confidence of the record the parser returned
    tier_in,               \* the URL handed to _classify_tier
    tier_out,              \* the tier it returned
    \* ---- the handlers that admit and submit (src/src/commands, src/src/listeners)
    handler_calls,         \* handler invocations made
    pending,               \* handlers past the check, awaiting their placeholder message
    admit_hist,            \* history: the request of the last handler step
    admitted,              \* history: requester -> allowed checks of its handlers
    enqueued,              \* history: requester -> jobs of its handlers put on the queue
    \* ---- the worker tasks over reloads and shutdown (src/src/bot.py)
    tasks,                 \* the worker tasks created so far: where each stands
    tracked,               \* _worker_tasks: the tasks the list holds
    reloading,             \* reload_llm_provider calls suspended at their gather
    reload_calls,          \* reload_llm_provider calls made by the commands
    closed,                \* close() has cancelled the tasks of the list
    got_after_close,       \* history: a worker took a job after close()
    \* ---- the allowed checks of each group over time (rate_limiter.py)
    allowed_log            \* history: guild -> the times of its allowed checks

rlVars == <<now, rate_limits, burst_hist, bucket_refill_rate, user_cooldowns, token_buckets, guild_usage,
            guild_usage_reset_ts, check_ret, check_hist, last_allowed,
            allowed_since_reset>>

vVars == <<v_sources, v_in, v_out>>

qVars == <<fact_check_queue, unfinished_tasks, worker_tasks, submit_calls,
           submit_ret, submit_hist, last_caught, queue_log, dequeued, handed,
           abandoned>>

llmVars == <<llm_config, llm, llm_pc, llm_sources, models_to_try, model_idx,
             attempt, last_error, llm_result, llm_succeeded, attempt_log,
             last_outcome, last_content, llm_retrieval, health_checks>>

pVars == <<parse_in, parse_out, conf_in, conf_out, tier_in, tier_out>>

hVars == <<handler_calls, pending, admit_hist, admitted, enqueued>>

sVars == <<tasks, tracked, reloading, reload_calls, closed, got_after_close>>

wVars == <<allowed_log>>

vars == <<rlVars, vVars, qVars, llmVars, pVars, hVars, sVars, wVars>>

\* What a step of one part leaves alone.
notRL == <<vVars, qVars, llmVars, pVars, hVars, sVars, wVars>>
notV == <<rlVars, qVars, llmVars, pVars, hVars, sVars, wVars>>
notQ == <<rlVars, vVars, llmVars, pVars, hVars, sVars, wVars>>
notLLM == <<rlVars, vVars, qVars, pVars, hVars, sVars, wVars>>
notP == <<rlVars, vVars, qVars, llmVars, hVars, sVars, wVars>>
notRLQ == <<vVars, llmVars, pVars, sVars, wVars>>
notS == <<rlVars, vVars, qVars, llmVars, pVars, hVars, wVars>>
notRLW == <<vVars, qVars, llmVars, pVars, hVars, sVars>>

----------------------------------------------------------------------------
(* Bounds of the model *)

NumUsers == 2
NumGuilds == 2
\* TTLCache(maxsize=10000): the model keeps the eviction rule and scales the
\* size down, to one less than the number of requesters, so that the
\* requesters of the model can fill the cache.
CooldownCacheSize == NumUsers - 1

\* Reasoning texts of up to MaxReasoningLen characters, up to MaxSources sources.
MaxReasoningLen == 4
MaxSources == 2

\* Fallback lists of up to MaxFallbacks model names.
MaxFallbacks == 2

\* At most MaxSubmits calls of submit_fact_check.
MaxSubmits == 3
MaxTags == 2

\* At most MaxHandlerCalls invocations of the handlers that submit.
MaxHandlerCalls == 3

\* At most MaxReloads calls of reload_llm_provider by the configuration commands.
MaxReloads == 3

\* Host names of up to MaxDomainParts parts.
MaxDomainParts == 3

Users == 1..NumUsers
\* None, the guild_id of a request outside every guild.
NoGuild == -1
GuildIds == 1..NumGuilds
GuildArgs == {NoGuild} \cup GuildIds
\* The keys guild_usage can hold: the guild ids, and the 0 the callers pass
\* for a request outside every guild (`guild_id or 0`).
GuildKeys == {0} \cup GuildIds

----------------------------------------------------------------------------
(* RateLimiter *)

DAY_SECONDS == 86400

REASON_COOLDOWN == "Per-user cooldown is active."
REASON_BURST == "Per-user burst limit reached. Please wait a moment."
REASON_DAILY == "Daily fact-check limit for this server has been reached."
REASON_OK == ""

Min(a, b) == IF a <= b THEN a ELSE b
Max(a, b) == IF a >= b THEN a ELSE b

\* The RateLimitConfig of the limiter.
user_cooldown == rate_limits.user_cooldown
bucket_tokens == rate_limits.bucket_tokens
daily_guild_limit == rate_limits.daily_guild_limit

\* The configuration the gates are studied under: a cooldown of one second, a
\* bucket of two tokens, two checks a day for a guild, and a refill rate of
\* 0 (no refill) or 1 token per second, chosen at construction.
SmallLimits == [user_cooldown |-> 1, bucket_tokens |-> 2, daily_guild_limit |-> 2]
RefillRates == {0, 1}

\* The configuration the token bucket is studied under: the default bucket of
\* 5 tokens refilled at 1 token per second and the default daily limit, with
\* the cooldown set to 0 seconds, which no entry of the TTLCache outlives.
BurstLimits == [user_cooldown |-> 0, bucket_tokens |-> 5, daily_guild_limit |-> 100]

\* The clock covers the seconds of one cooldown window (two seconds when
\* there is no cooldown), and the second that ends the first day.
MaxSecondTicks == IF user_cooldown > 0 THEN user_cooldown ELSE 2

\* TTLCache.__contains__: the key has a link and the timer is before its expiry.
CacheContains(cache, key, t) ==
    \E i \in 1..Len(cache) : cache[i].user = key /\ t < cache[i].expires

\* TTLCache.expire(t): links whose expiry is not after t are removed.
CacheExpire(cache, t) == SelectSeq(cache, LAMBDA e : t < e.expires)

\* TTLCache.__setitem__: expire, evict the oldest entries while a new key does
\* not fit, then (re)insert the key as the newest with expiry t + ttl.
CacheSetItem(cache, key, t, ttl) ==
    LET live == CacheExpire(cache, t)
        isNew == \A i \in 1..Len(live) : live[i].user # key
        others == SelectSeq(live, LAMBDA e : e.user # key)
        kept == IF isNew /\ Len(others) + 1 > CooldownCacheSize
                THEN SubSeq(others, Len(others) + 2 - CooldownCacheSize, Len(others))
                ELSE others
    IN Append(kept, [user |-> key, expires |-> t + ttl])

\* _reset_guild_usage_if_needed: the condition of the sweep.
ResetDue(t) == t - guild_usage_reset_ts >= DAY_SECONDS

UsageAfterReset(t) ==
    IF ResetDue(t) THEN [g \in GuildKeys |-> 0] ELSE guild_usage
ResetTsAfterReset(t) ==
    IF ResetDue(t) THEN t ELSE guild_usage_reset_ts

\* Gate 1: user_id in self.user_cooldowns
CooldownActive(user_id) == CacheContains(user_cooldowns, user_id, now)

\* Gate 2: the bucket read with its default, refilled for the elapsed time.
RefilledTokens(user_id) ==
    LET bucket == IF user_id \in DOMAIN token_buckets
                  THEN token_buckets[user_id]
                  ELSE <<bucket_tokens, now>>
        elapsed == Max(0, now - bucket[2])
    IN Min(bucket_tokens, bucket[1] + elapsed * bucket_refill_rate)

\* Gate 2 refusing the last token.
BucketEmpty_AtOne(user_id) == RefilledTokens(user_id) <= 1

BucketEmpty(user_id) == RefilledTokens(user_id) < 1

\* Gate 3 with > for >=.
GuildLimitReached_OffByOne(guild_id) ==
    /\ guild_id # NoGuild
    /\ UsageAfterReset(now)[guild_id] > daily_guild_limit

\* Gate 3: the guild counter after the sweep against the daily limit.
GuildLimitReached(guild_id) ==
    /\ guild_id # NoGuild
    /\ UsageAfterReset(now)[guild_id] >= daily_guild_limit

\* The gates in another order: the bucket before the cooldown.
CheckReason_BucketFirst(user_id, guild_id) ==
    IF BucketEmpty(user_id) THEN REASON_BURST
    ELSE IF CooldownActive(user_id) THEN REASON_COOLDOWN
    ELSE IF GuildLimitReached(guild_id) THEN REASON_DAILY
    ELSE REASON_OK

\* The reason check returns: the gates in the order of the code, the first
\* that fails returning.
CheckReason(user_id, guild_id) ==
    IF CooldownActive(user_id) THEN REASON_COOLDOWN
    ELSE IF BucketEmpty(user_id) THEN REASON_BURST
    ELSE IF GuildLimitReached(guild_id) THEN REASON_DAILY
    ELSE REASON_OK

\* The commit without the count of the group.
CommittedUsage_NotCounted(guild_id) == UsageAfterReset(now)

\* The commit storing the refilled count without spending a token.
CommittedBuckets_NoSpend(user_id) ==
    [u \in (DOMAIN token_buckets) \cup {user_id} |->
        IF u = user_id THEN <<RefilledTokens(user_id), now>> ELSE token_buckets[u]]

\* Commit usage, the three writes of an allowed check.
CommittedBuckets(user_id) ==
    [u \in (DOMAIN token_buckets) \cup {user_id} |->
        IF u = user_id THEN <<RefilledTokens(user_id) - 1, now>> ELSE token_buckets[u]]

CommittedCooldowns(user_id) ==
    CacheSetItem(user_cooldowns, user_id, now, user_cooldown)

CommittedUsage(guild_id) ==
    IF guild_id # NoGuild
    THEN [UsageAfterReset(now) EXCEPT ![guild_id] = @ + 1]
    ELSE UsageAfterReset(now)

\* The bucket written back as soon as gate 2 has passed, before gate 3.
BucketsAfterCheck_WriteBeforeGuildGate(user_id, reason) ==
    IF reason \in {REASON_OK, REASON_DAILY}
    THEN CommittedBuckets(user_id) ELSE token_buckets

\* self.token_buckets once check has returned with reason: written only on the
\* commit path.
BucketsAfterCheck(user_id, reason) ==
    IF reason = REASON_OK THEN CommittedBuckets(user_id) ELSE token_buckets

\* self.user_cooldowns once check has returned with reason.
CooldownsAfterCheck(user_id, reason) ==
    IF reason = REASON_OK THEN CommittedCooldowns(user_id) ELSE user_cooldowns

\* self.guild_usage once check has returned with reason: swept if due, then
\* counted on the commit path.
UsageAfterCheck(guild_id, reason) ==
    IF reason = REASON_OK THEN CommittedUsage(guild_id) ELSE UsageAfterReset(now)

\* What holds of the state a check is called in, read off the variables; the
\* check records it in check_hist.
InCooldownWindow(u) == last_allowed[u] >= 0 /\ now < last_allowed[u] + user_cooldown
HasCooldownEntry(u) ==
    \E i \in 1..Len(user_cooldowns) :
        user_cooldowns[i].user = u /\ now < user_cooldowns[i].expires
TokensAvailable(u) ==
    IF u \in DOMAIN token_buckets
    THEN Min(bucket_tokens,
             token_buckets[u][1] + Max(0, now - token_buckets[u][2]) * bucket_refill_rate)
    ELSE bucket_tokens
SweepDue == now - guild_usage_reset_ts >= DAY_SECONDS
CounterAtLimit(g) == g # NoGuild /\ ~SweepDue /\ guild_usage[g] >= daily_guild_limit

QuotaUsed(g) == g # NoGuild /\ ~SweepDue /\ allowed_since_reset[g] >= daily_guild_limit

\* The history of a check(u, g): the observations above, the guild and time of
\* a check that swept (<<>> if it did not), and the RateState a rejected check
\* was called in (<<>> if it was allowed).
HistoryOf(u, g, allowed) ==
    [in_window |-> InCooldownWindow(u),
     has_entry |-> HasCooldownEntry(u),
     has_token |-> TokensAvailable(u) >= 1,
     at_limit |-> CounterAtLimit(g),
     quota_used |-> QuotaUsed(g),
     sweep |-> IF SweepDue THEN <<g, now>> ELSE <<>>,
     before |-> IF allowed THEN <<>>
                ELSE <<token_buckets, user_cooldowns, guild_usage, guild_usage_reset_ts>>]

\* RateLimiter.check(user_id, guild_id): what the call does to the limiter.
CheckCall(user_id, guild_id) ==
    LET reason == CheckReason(user_id, guild_id)
        allowed == reason = REASON_OK
        base == IF ResetDue(now) THEN [g \in GuildKeys |-> 0] ELSE allowed_since_reset
    IN
    /\ guild_usage_reset_ts' = ResetTsAfterReset(now)
    /\ guild_usage' = UsageAfterCheck(guild_id, reason)
    /\ token_buckets' = BucketsAfterCheck(user_id, reason)
    /\ user_cooldowns' = CooldownsAfterCheck(user_id, reason)
    /\ check_ret' = <<allowed, reason>>
    /\ check_hist' = HistoryOf(user_id, guild_id, allowed)
    /\ last_allowed' = IF allowed THEN [last_allowed EXCEPT ![user_id] = now]
                       ELSE last_allowed
    /\ allowed_since_reset' =
          IF allowed /\ guild_id # NoGuild
          THEN [base EXCEPT ![guild_id] = @ + 1] ELSE base
    /\ burst_hist' = IF allowed
                     THEN [burst_hist EXCEPT !.allowed[user_id] = @ + 1]
                     ELSE burst_hist
    /\ UNCHANGED <<now, rate_limits, bucket_refill_rate>>

\* RateLimiter.check(user_id, guild_id), called on the limiter alone.
Check(user_id, guild_id) ==
    /\ CheckCall(user_id, guild_id)
    /\ UNCHANGED notRL

NoCall == <<FALSE, "no call yet">>
NoHistory ==
    [in_window |-> FALSE, has_entry |-> FALSE, has_token |-> FALSE, at_limit |-> FALSE,
     quota_used |-> FALSE, sweep |-> <<>>, before |-> <<>>]

\* What a requester comes to a new second t with: no bucket yet, a bucket it
\* emptied in the second before, or anything else.
WaitedTo(u, t) ==
    IF u \notin DOMAIN token_buckets THEN "cold start"
    ELSE IF token_buckets[u] = <<0, now>> /\ t = now + 1
         THEN "one second after empty"
         ELSE "other"

\* time.time() between two calls: the same second (no step), the next second,
\* or the second that ends the first day.
Tick ==
    /\ now < DAY_SECONDS
    /\ \E t \in {now + 1, DAY_SECONDS} :
          /\ (t < DAY_SECONDS => t <= MaxSecondTicks)
          /\ now' = t
          /\ burst_hist' = [allowed |-> [u \in Users |-> 0],
                            waited |-> [u \in Users |-> WaitedTo(u, t)]]
    /\ check_ret' = NoCall
    /\ check_hist' = NoHistory
    /\ UNCHANGED <<rate_limits, bucket_refill_rate, user_cooldowns, token_buckets, guild_usage,
                   guild_usage_reset_ts, last_allowed,
                   allowed_since_reset>>
    /\ UNCHANGED notRL

\* RateLimiter.__init__, but for the configuration.
ConstructedRL ==
    /\ now = 0
    /\ user_cooldowns = <<>>
    /\ token_buckets = <<>>
    /\ guild_usage = [g \in GuildKeys |-> 0]
    /\ guild_usage_reset_ts = 0
    /\ check_ret = NoCall
    /\ check_hist = NoHistory
    /\ last_allowed = [u \in Users |-> -1]
    /\ allowed_since_reset = [g \in GuildKeys |-> 0]
    /\ burst_hist = [allowed |-> [u \in Users |-> 0],
                     waited |-> [u \in Users |-> "cold start"]]
    /\ allowed_log = [g \in GuildKeys |-> <<>>]

\* RateLimiter(config.rate_limits) under the small configuration.
InitRL ==
    /\ rate_limits = SmallLimits
    /\ bucket_refill_rate \in RefillRates
    /\ ConstructedRL

\* Configurations whose cooldown refills a token: cooldowns of 1 and 2
\* seconds and buckets of 1 and 2 tokens, refilled at 1 token per second.
CooldownLimits ==
    [user_cooldown : {1, 2}, bucket_tokens : {1, 2}, daily_guild_limit : {2}]

\* RateLimiter(config.rate_limits) under a configuration with a cooldown.
InitGate ==
    /\ rate_limits \in CooldownLimits
    /\ bucket_refill_rate = 1
    /\ ConstructedRL

\* RateLimiter(config.rate_limits) under the token-bucket configuration.
InitTB ==
    /\ rate_limits = BurstLimits
    /\ bucket_refill_rate = 1
    /\ ConstructedRL

\* RateLimiter.check(user_id, guild_id) for a guild, with the time of the
\* check logged for the guild when it is allowed.
CheckLogged(user_id, guild_id) ==
    /\ CheckCall(user_id, guild_id)
    /\ allowed_log' = IF CheckReason(user_id, guild_id) = REASON_OK
                      THEN [allowed_log EXCEPT ![guild_id] = Append(@, now)]
                      ELSE allowed_log
    /\ UNCHANGED notRLW

CheckGuild == \E u \in Users, g \in GuildIds : CheckLogged(u, g)

\* Checks of direct messages, which have no guild.
CheckDirect == \E u \in Users : Check(u, NoGuild)

CheckAny == \E u \in Users, g \in GuildArgs : Check(u, g)


----------------------------------------------------------------------------
(* VerificationResult and ResponseValidator *)

Verdicts == {"TRUE", "FALSE", "MIXED", "UNVERIFIABLE"}

\* A reasoning text is a sequence of characters; the characters the model
\* draws texts from are the brackets and three digits.
Digits == {"0", "1", "3"}
ReasoningChars == {"[", "]"} \cup Digits

DigitValue(c) == CASE c = "0" -> 0 [] c = "1" -> 1 [] c = "3" -> 3

\* int(cite_idx)
RECURSIVE IntOf(_)
IntOf(ds) ==
    IF ds = <<>> THEN 0
    ELSE IntOf(SubSeq(ds, 1, Len(ds) - 1)) * 10 + DigitValue(ds[Len(ds)])

\* \d+ from position i: the position after the longest run of digits.
RECURSIVE DigitRunEnd(_, _)
DigitRunEnd(s, i) ==
    IF i <= Len(s) /\ s[i] \in Digits THEN DigitRunEnd(s, i + 1) ELSE i

\* CITATION_PATTERN.findall(s), scanning from position i: the digit groups of
\* the non-overlapping matches of \[(\d+)\], leftmost first.
RECURSIVE FindAllFrom(_, _)
FindAllFrom(s, i) ==
    IF i > Len(s) THEN <<>>
    ELSE IF s[i] = "["
         THEN LET j == DigitRunEnd(s, i + 1)
              IN IF j > i + 1 /\ j <= Len(s) /\ s[j] = "]"
                 THEN <<SubSeq(s, i + 1, j - 1)>> \o FindAllFrom(s, j + 1)
                 ELSE FindAllFrom(s, i + 1)
         ELSE FindAllFrom(s, i + 1)

CitationsFound(reasoning) == FindAllFrom(reasoning, 1)

\* The characters of a text as one string.
RECURSIVE JoinChars(_)
JoinChars(s) == IF s = <<>> THEN "" ELSE s[1] \o JoinChars(Tail(s))

\* '; '.join(errors)
RECURSIVE JoinErrors(_)
JoinErrors(errors) ==
    IF errors = <<>> THEN ""
    ELSE IF Len(errors) = 1 THEN errors[1]
    ELSE errors[1] \o "; " \o JoinErrors(Tail(errors))

ERR_NO_SOURCES == "No sources provided but verdict claims certainty"
ERR_NO_CITATION == "Reasoning contains no citation tags [N]"
ErrOutOfRange(cite_idx, source_count) ==
    "Citation [" \o JoinChars(cite_idx) \o "] out of range (have "
        \o ToString(source_count) \o " sources)"

\* The range check applied to the first citation only.
RangeErrors_FirstOnly(citations, source_count) ==
    IF citations = <<>> THEN <<>>
    ELSE LET idx == IntOf(citations[1])
         IN IF idx < 1 \/ idx > source_count
            THEN <<ErrOutOfRange(citations[1], source_count)>> ELSE <<>>

\* The out-of-range errors of the citations, in their order.
RECURSIVE RangeErrors(_, _)
RangeErrors(citations, source_count) ==
    IF citations = <<>> THEN <<>>
    ELSE LET idx == IntOf(citations[1])
         IN (IF idx < 1 \/ idx > source_count
             THEN <<ErrOutOfRange(citations[1], source_count)>> ELSE <<>>)
            \o RangeErrors(Tail(citations), source_count)

\* The citation checks, under `if result.reasoning:`.
ReasoningErrors(reasoning, source_count) ==
    IF reasoning # <<>>
    THEN (IF source_count > 0 /\ CitationsFound(reasoning) = <<>>
          THEN <<ERR_NO_CITATION>> ELSE <<>>)
         \o RangeErrors(CitationsFound(reasoning), source_count)
    ELSE <<>>

\* The errors validate collects.
ValidationErrors(result, source_count) ==
    (IF source_count = 0 /\ result.verdict \notin {"UNVERIFIABLE", "MIXED"}
     THEN <<ERR_NO_SOURCES>> ELSE <<>>)
    \o ReasoningErrors(result.reasoning, source_count)

\* result.reasoning[:200]
EXCERPT_LEN == 200
Excerpt(reasoning) == SubSeq(reasoning, 1, Min(EXCERPT_LEN, Len(reasoning)))

\* Confidences are in hundredths: 15 is 0.15.
DOWNGRADE_CONFIDENCE == 15

\* The downgrade keeping the confidence of the record.
Downgraded_KeepConfidence(result, errors) ==
    [statement |-> result.statement,
     verdict |-> "UNVERIFIABLE",
     confidence |-> result.confidence,
     reasoning |-> <<"Validation failed: " \o JoinErrors(errors) \o ". Original: ">>
                       \o Excerpt(result.reasoning),
     sources |-> result.sources,
     model_name |-> result.model_name,
     usage |-> "None",
     validation_passed |-> FALSE,
     validation_errors |-> errors]

\* The downgrade keeping the verdict of the record.
Downgraded_KeepVerdict(result, errors) ==
    [statement |-> result.statement,
     verdict |-> result.verdict,
     confidence |-> DOWNGRADE_CONFIDENCE,
     reasoning |-> <<"Validation failed: " \o JoinErrors(errors) \o ". Original: ">>
                       \o Excerpt(result.reasoning),
     sources |-> result.sources,
     model_name |-> result.model_name,
     usage |-> "None",
     validation_passed |-> FALSE,
     validation_errors |-> errors]

\* The VerificationResult built when errors were found.
Downgraded(result, errors) ==
    [statement |-> result.statement,
     verdict |-> "UNVERIFIABLE",
     confidence |-> DOWNGRADE_CONFIDENCE,
     reasoning |-> <<"Validation failed: " \o JoinErrors(errors) \o ". Original: ">>
                       \o Excerpt(result.reasoning),
     sources |-> result.sources,
     model_name |-> result.model_name,
     usage |-> "None",
     validation_passed |-> FALSE,
     validation_errors |-> errors]

\* ResponseValidator(provided_sources).validate(result), source_count being
\* len(provided_sources).
validate(result, source_count) ==
    LET errors == ValidationErrors(result, source_count)
    IN IF errors # <<>>
       THEN Downgraded(result, errors)
       ELSE [result EXCEPT !.validation_passed = TRUE, !.validation_errors = <<>>]

\* Texts of at most n characters.
TextsUpTo(n) == UNION {[1..k -> ReasoningChars] : k \in 0..n}

\* The records validate is applied to: every verdict, a low and a high
\* confidence, every text; the sources of the record are those of the validator.
ValidatorInputs(source_count) ==
    [statement : {"claim"},
     verdict : Verdicts,
     confidence : {10, 90},
     reasoning : TextsUpTo(MaxReasoningLen),
     sources : {source_count},
     model_name : {"model-a"},
     usage : {"None"},
     validation_passed : {TRUE},
     validation_errors : {<<>>}]

\* Citation tags the model writes reasonings with.
Tags == {<<"[", d, "]">> : d \in Digits} \cup {<<"[", "1", "3", "]">>}

\* Texts made of at most n tags.
RECURSIVE TagTexts(_)
TagTexts(n) ==
    IF n = 0 THEN {<<>>}
    ELSE TagTexts(n - 1) \cup {t \o tag : t \in TagTexts(n - 1), tag \in Tags}

\* The records validate is applied to, their reasonings made of tags.
CitingInputs(source_count) ==
    [statement : {"claim"},
     verdict : Verdicts,
     confidence : {10, 90},
     reasoning : TagTexts(MaxTags),
     sources : {source_count},
     model_name : {"model-a"},
     usage : {"None"},
     validation_passed : {TRUE},
     validation_errors : {<<>>}]

NoResult == [verdict |-> "none"]

----------------------------------------------------------------------------
(* NagromBot: the fact-check queue and the workers *)

queue_max_size == 2
QUEUE_FULL_REASON == "The fact-check queue is full. Please try again shortly."

\* range(2) of reload_llm_provider and again of setup_hook.
WORKERS_PER_START == 2
\* setup_hook starts its workers after load_active_config has reloaded the
\* provider, which started WORKERS_PER_START workers already.
WorkerIds == 1..(2 * WORKERS_PER_START)

\* asyncio.Queue.full()
QueueIsFull(q) == IF queue_max_size <= 0 THEN FALSE ELSE Len(q) >= queue_max_size

\* put_nowait appending although the queue is full.
PutNowait_NoLimit(q, job) == <<"put", Append(q, job)>>

\* put_nowait placing the job at the head of the queue.
PutNowait_AtHead(q, job) ==
    IF QueueIsFull(q) THEN <<"QueueFull", q>> ELSE <<"put", <<job>> \o q>>

\* asyncio.Queue.put_nowait(job): the queue after it, or QueueFull raised.
PutNowait(q, job) ==
    IF QueueIsFull(q) THEN <<"QueueFull", q>> ELSE <<"put", Append(q, job)>>

NoTask == [status |-> "not started", pc |-> "none", job |-> 0, result |-> "none",
     message |-> "no value"]
Waiting == [status |-> "running", pc |-> "get", job |-> 0, result |-> "none",
     message |-> "no value"]
NoneCaught == [worker |-> 0, job |-> 0, stage |-> "none"]
NoSubmit == <<FALSE, "no call yet">>
NoSubmitHist == [job |-> 0, full |-> FALSE, queue |-> <<>>]

\* NagromBot.__init__: the queue is empty and no worker task exists.
InitQ ==
    /\ fact_check_queue = <<>>
    /\ unfinished_tasks = 0
    /\ worker_tasks = [w \in WorkerIds |-> NoTask]
    /\ submit_calls = 0
    /\ submit_ret = NoSubmit
    /\ submit_hist = NoSubmitHist
    /\ last_caught = NoneCaught
    /\ queue_log = <<>>
    /\ dequeued = <<>>
    /\ handed = {}
    /\ abandoned = {}

Started == \E w \in WorkerIds : worker_tasks[w].status # "not started"

\* setup_hook: load_active_config reloads the provider, which starts
\* WORKERS_PER_START workers over an empty task list; setup_hook then starts
\* WORKERS_PER_START more. The listeners that submit are loaded by it.
SetupHook ==
    /\ ~Started
    /\ worker_tasks' = [w \in WorkerIds |-> Waiting]
    /\ UNCHANGED <<fact_check_queue, unfinished_tasks, submit_calls, last_caught,
                   queue_log, dequeued, handed, abandoned>>
    /\ UNCHANGED notQ
    /\ submit_ret' = NoSubmit
    /\ submit_hist' = NoSubmitHist

\* submit_fact_check(...): what the call does to the queue; there is no await
\* in it.
SubmitCall ==
    /\ Started
    /\ submit_calls < MaxSubmits
    /\ LET job == submit_calls + 1
           put == PutNowait(fact_check_queue, job)
       IN /\ submit_calls' = job
          /\ fact_check_queue' = put[2]
          /\ unfinished_tasks' = IF put[1] = "put" THEN unfinished_tasks + 1
                                 ELSE unfinished_tasks
          /\ submit_ret' = IF put[1] = "put" THEN <<TRUE, "">>
                           ELSE <<FALSE, QUEUE_FULL_REASON>>
          /\ submit_hist' = [job |-> job,
                             full |-> Len(fact_check_queue) >= queue_max_size,
                             queue |-> fact_check_queue]
          /\ queue_log' = IF put[1] = "put" THEN Append(queue_log, job) ELSE queue_log
    /\ UNCHANGED <<worker_tasks, last_caught, dequeued, handed, abandoned>>

\* submit_fact_check(...), whoever calls it.
SubmitFactCheck ==
    /\ SubmitCall
    /\ UNCHANGED notQ

\* A step of a worker is not a submit: the return value of the last submit
\* has been consumed.
WorkerStepFrame ==
    /\ submit_ret' = NoSubmit
    /\ submit_hist' = NoSubmitHist
    /\ UNCHANGED <<submit_calls, queue_log>>
    /\ UNCHANGED notQ

\* A get, and a step of a worker after its analysis, hand nothing to delivery.
NothingHanded == UNCHANGED <<handed, abandoned>>

\* job = await self.fact_check_queue.get()
WorkerGet(w) ==
    /\ worker_tasks[w].status = "running"
    /\ worker_tasks[w].pc = "get"
    /\ fact_check_queue # <<>>
    /\ LET job == Head(fact_check_queue)
       IN /\ fact_check_queue' = Tail(fact_check_queue)
          /\ worker_tasks' = [worker_tasks EXCEPT ![w].pc = "analyze", ![w].job = job]
          /\ dequeued' = Append(dequeued, <<w, job>>)
    /\ UNCHANGED <<unfinished_tasks, last_caught>>
    /\ NothingHanded
    /\ WorkerStepFrame

\* `except Exception` of the worker catches every exception a job raises.
ExceptionKinds == {"Exception"}

\* The worker without its outer handler.
CaughtByWorker_Nothing(exc) == FALSE

\* except Exception as exc (bot.py:259)
CaughtByWorker(exc) == exc \in ExceptionKinds

\* The VerificationResult the worker builds when analyze_text raised exc.
worker_fallback_result(exc) ==
    [statement |-> "claim", verdict |-> "UNVERIFIABLE", confidence |-> 0,
     reasoning |-> <<"Analysis failed: ", exc>>,
     sources |-> 0, model_name |-> "None", usage |-> "None",
     validation_passed |-> TRUE, validation_errors |-> <<>>]

\* The worker without its inner handler: an exception of analyze_text goes to
\* the outer handler, and the job ends there.
AfterAnalysis_NoInnerHandler(task, outcome) ==
    IF outcome = "returned" THEN [task EXCEPT !.pc = "deliver", !.result = "analysis"]
    ELSE [status |-> "running", pc |-> "get", job |-> 0, result |-> "none",
     message |-> "no value"]

\* The worker on an analyze_text that neither returns nor raises.
AfterAnalysis_NeverReturns(task, outcome) == task

\* The worker once analyze_text has returned or raised: it goes on to
\* delivery, with the result of the analysis or with the UNVERIFIABLE result
\* it builds itself (worker_fallback_result).
AfterAnalysis(task, outcome) ==
    [task EXCEPT !.pc = "deliver",
                 !.result = IF outcome = "returned" THEN "analysis"
                            ELSE "analysis failed"]

\* result = await self.llm.analyze_text(job.input_text), with its own handler
\* that replaces a raised exception by an UNVERIFIABLE result; the call of
\* _deliver_fact_check(job, result) follows without an await in between.
WorkerAnalyze(w) ==
    /\ worker_tasks[w].status = "running"
    /\ worker_tasks[w].pc = "analyze"
    /\ \E outcome \in {"returned", "raised"} :
        LET after == AfterAnalysis(worker_tasks[w], outcome)
        IN /\ worker_tasks' = [worker_tasks EXCEPT ![w] = after]
           /\ handed' = IF after.pc = "deliver"
                        THEN handed \cup {worker_tasks[w].job} ELSE handed
           /\ last_caught' = IF outcome = "raised"
                             THEN [worker |-> w, job |-> worker_tasks[w].job,
                                   stage |-> "analysis"]
                             ELSE last_caught
    /\ UNCHANGED <<fact_check_queue, unfinished_tasks, dequeued, abandoned>>
    /\ WorkerStepFrame

\* The worker after an exception left the inner block: the finally clause has
\* called task_done; the loop goes on if the handler caught the exception,
\* else the task ends with it.
AfterRaise(task, exc) ==
    IF CaughtByWorker(exc) THEN Waiting
    ELSE [status |-> "crashed", pc |-> "none", job |-> 0, result |-> "none",
     message |-> "no value"]

\* message = await self._deliver_fact_check(job, result): a message, or None
\* when the channel is not found or is of no kind that takes messages, or an
\* exception of the embed or of the sending.
WorkerDeliver(w) ==
    /\ worker_tasks[w].status = "running"
    /\ worker_tasks[w].pc = "deliver"
    /\ LET job == worker_tasks[w].job
       IN \E outcome \in {"delivered", "no channel", "raised"} :
            IF outcome = "raised"
            THEN /\ worker_tasks' = [worker_tasks EXCEPT
                        ![w] = AfterRaise(worker_tasks[w], "Exception")]
                 /\ last_caught' = [worker |-> w, job |-> job, stage |-> "delivery"]
                 /\ unfinished_tasks' = unfinished_tasks - 1
            ELSE /\ worker_tasks' = [worker_tasks EXCEPT
                        ![w].pc = "store", ![w].message = "message or None"]
                 /\ UNCHANGED <<unfinished_tasks, last_caught>>
    /\ UNCHANGED <<fact_check_queue, dequeued, handed, abandoned>>
    /\ WorkerStepFrame

\* The worker with a _store_fact_check that lets its exception out, and no
\* handler around it.
AfterStore_FailureStops(outcome) ==
    IF outcome = "failed"
    THEN [status |-> "crashed", pc |-> "none", job |-> 0, result |-> "none",
     message |-> "no value"]
    ELSE Waiting

\* The worker after _store_fact_check: the exception of a failed commit is
\* caught and logged inside it, the call returns, and the loop goes on.
AfterStore(outcome) == Waiting

\* await self._store_fact_check(job, result, message), which logs what the
\* database raises; then finally: task_done(), and the loop goes on.
WorkerStore(w) ==
    /\ worker_tasks[w].status = "running"
    /\ worker_tasks[w].pc = "store"
    /\ LET job == worker_tasks[w].job
       IN \E outcome \in {"stored", "failed"} :
            /\ last_caught' = IF outcome = "failed"
                              THEN [worker |-> w, job |-> job, stage |-> "storage"]
                              ELSE last_caught
            /\ worker_tasks' = [worker_tasks EXCEPT ![w] = AfterStore(outcome)]
    /\ unfinished_tasks' = unfinished_tasks - 1
    /\ UNCHANGED <<fact_check_queue, dequeued>>
    /\ NothingHanded
    /\ WorkerStepFrame

WorkerStep == \E w \in WorkerIds :
    WorkerGet(w) \/ WorkerAnalyze(w) \/ WorkerDeliver(w) \/ WorkerStore(w)

NextQ == SetupHook \/ SubmitFactCheck \/ WorkerStep

\* A validator over n sources and a record to validate; nothing returned yet.
InitV ==
    /\ v_sources \in 0..MaxSources
    /\ v_in \in ValidatorInputs(v_sources)
    /\ v_out = NoResult

\* validator = ResponseValidator(sources); validator.validate(result)
Validate ==
    /\ v_out = NoResult
    /\ v_out' = validate(v_in, v_sources)
    /\ UNCHANGED <<v_sources, v_in>>
    /\ UNCHANGED notV

NextV == Validate

\* A validator over n sources and a record whose reasoning is made of tags.
InitVC ==
    /\ v_sources \in 0..MaxSources
    /\ v_in \in CitingInputs(v_sources)
    /\ v_out = NoResult

----------------------------------------------------------------------------
(* create_llm_provider *)

\* Provider names of config.llm.provider the model draws from.
ProviderNames == {"google", "Anthropic", "nvidia", "openrouter", "mistral"}

\* str.lower() on those names.
Lower(name) == IF name = "Anthropic" THEN "anthropic" ELSE name

\* GoogleAIStudioProvider.__init__(self, config, system_prompt_path) called
\* with three arguments.
GoogleConstruction == "TypeError"

\* create_llm_provider(config, search_manager): the class of the provider it
\* returns, or the exception it raises.
create_llm_provider(config) ==
    LET provider_name == Lower(config.provider)
    IN IF provider_name \in {"google_ai_studio", "google"} THEN GoogleConstruction
       ELSE IF provider_name = "anthropic" THEN "AnthropicProvider"
       ELSE IF provider_name \in {"openai_compatible", "nvidia"} THEN "OpenAISDKProvider"
       ELSE IF provider_name \in {"custom", "openai", "openrouter"} THEN "OpenRouterProvider"
       ELSE "OpenRouterProvider"

SourceLockedProviders == {"AnthropicProvider", "OpenAISDKProvider", "OpenRouterProvider"}

ModelNames == {"model-a", "model-b"}

LLMConfigs ==
    [provider : ProviderNames,
     model : ModelNames,
     fallback_models : UNION {[1..k -> ModelNames] : k \in 0..MaxFallbacks}]

----------------------------------------------------------------------------
(* SourceLockedProviderMixin: parsing and finalizing *)

ABSENT == "<absent>"

\* The reasoning value of a JSON object: absent, not a string, or a text.
SampleTexts == {<<>>, <<"1">>, <<"[", "1", "]">>, <<"[", "3", "]">>}
ReasoningFields ==
    {[kind |-> "absent", text |-> <<>>], [kind |-> "non-str", text |-> <<>>]}
        \cup {[kind |-> "str", text |-> t] : t \in SampleTexts}

\* A JSON object of a model: a verdict string or none, a confidence (a float,
\* in hundredths) or none, a reasoning value.
ContentObjects ==
    [verdict : {ABSENT, "TRUE", "true", "BOGUS"},
     confidence : {<<>>, <<90>>, <<150>>},
     reasoning : ReasoningFields]

NoObject == [verdict |-> ABSENT, confidence |-> <<>>,
             reasoning |-> [kind |-> "absent", text |-> <<>>]]

\* Texts that json.loads turns into a value that is not an object.
NonObjectKinds == {"JSON list", "JSON number", "JSON string", "JSON null"}

\* What message.content can be: None, a text without a JSON object in it, a
\* text that is JSON but not an object, a text holding a JSON object, or
\* (chat-completions only) an object already.
Contents ==
    {[kind |-> k, obj |-> NoObject] : k \in {"None", "garbage"} \cup NonObjectKinds}
        \cup {[kind |-> k, obj |-> o] : k \in {"object", "dict"}, o \in ContentObjects}

\* _fallback_parse_result()
FALLBACK_CONFIDENCE == 10
fallback_parse_result ==
    [verdict |-> "UNVERIFIABLE", confidence |-> <<FALLBACK_CONFIDENCE>>,
     reasoning |-> [kind |-> "str", text |-> <<"Failed to parse LLM response as JSON.">>]]

\* verdict.upper()
Upper(v) == IF v = "true" THEN "TRUE" ELSE v

\* max(0.0, min(1.0, float(conf))), in hundredths
Clamp(conf) == Max(0, Min(100, conf))

\* The normalization of _parse_llm_response (provider.py:280-300) on a JSON
\* object.
Normalized(obj) ==
    [verdict |-> IF obj.verdict # ABSENT /\ Upper(obj.verdict) \in Verdicts
                 THEN Upper(obj.verdict) ELSE "UNVERIFIABLE",
     confidence |-> IF obj.confidence # <<>> THEN <<Clamp(obj.confidence[1])>>
                    ELSE <<0>>,
     reasoning |-> IF obj.reasoning.kind = "str" THEN obj.reasoning
                   ELSE [kind |-> "str", text |-> <<"No reasoning provided.">>]]

\* _parse_llm_response(content, original_text): <<"ok", the dict>> or
\* <<"raise", the exception>>. None has no strip(); a JSON value that is not
\* an object fails at the first item assignment.
parse_llm_response(content) ==
    CASE content.kind = "None" -> <<"raise", "AttributeError">>
      [] content.kind \in NonObjectKinds -> <<"raise", "TypeError">>
      [] content.kind = "garbage" -> <<"ok", fallback_parse_result>>
      [] OTHER -> <<"ok", Normalized(content.obj)>>

\* The raw texts of a model: message.content when it is a string.
RawTexts == {c \in Contents : c.kind \notin {"None", "dict"}}

NoText == [kind |-> "no call", obj |-> NoObject]
NotParsed == <<"none", fallback_parse_result>>

\* The confidence token of a raw text, as it stands after "confidence": an
\* integer (val is the integer), a decimal number (val is in hundredths), a
\* string, true or false, null, two dots in a number, or no confidence key.
ConfidenceTokens ==
    {[type |-> "int", val |-> n] : n \in {-3, 0, 1, 2, 87, 100, 101, 250}}
        \cup {[type |-> "decimal", val |-> h] : h \in {-50, 0, 40, 87, 100, 150, 8700}}
        \cup {[type |-> "bool", val |-> b] : b \in {0, 1}}
        \cup {[type |-> t, val |-> 0] : t \in {"str", "null", "absent", "two dots"}}

\* How the object of a raw text gets parsed: by json.loads (of the text or of
\* its {...} part), by json.loads after one of the two repairs of
\* _attempt_json_repair, or by its extraction of the fields with regular
\* expressions. A number with two dots is no JSON.
ParsePaths == {"json.loads", "repaired", "extracted"}
ConfidenceInputs ==
    {[path |-> q, token |-> t] : q \in ParsePaths, t \in ConfidenceTokens}
        \ {[path |-> q, token |-> [type |-> "two dots", val |-> 0]] :
                q \in {"json.loads", "repaired"}}

NoConfidence == [py |-> "no key", val |-> 0]

\* parsed["confidence"] of the dict json.loads returns: an int (bool is a
\* subclass of int), a float (in hundredths), another value, or no key.
LoadedConfidence(token) ==
    CASE token.type \in {"int", "bool"} -> [py |-> "int", val |-> token.val]
      [] token.type = "decimal" -> [py |-> "float", val |-> token.val]
      [] token.type = "absent" -> NoConfidence
      [] OTHER -> [py |-> "other", val |-> 0]

\* float(conf_match.group(1)) if conf_match else 0.5, in hundredths, where
\* conf_match searches "confidence"\s*:\s*([0-9.]+): digits and dots only, so
\* no sign, no quote and no word; float raises on two dots, and the
\* extraction returns None.
EXTRACTED_DEFAULT_CONFIDENCE == 50
ExtractedConfidence(token) ==
    CASE token.type = "two dots" -> [py |-> "ValueError", val |-> 0]
      [] token.type = "int" /\ token.val >= 0 -> [py |-> "float", val |-> 100 * token.val]
      [] token.type = "decimal" /\ token.val >= 0 -> [py |-> "float", val |-> token.val]
      [] OTHER -> [py |-> "float", val |-> EXTRACTED_DEFAULT_CONFIDENCE]

\* The confidence of _parse_llm_response (provider.py:288-297), in
\* hundredths: an int above 1 is divided by 100, an int or a float is
\* clamped, anything else and no key give 0.0.
NormalizedConfidence(conf) ==
    IF conf.py = "int"
    THEN IF conf.val > 1 THEN Clamp(conf.val) ELSE Clamp(100 * conf.val)
    ELSE IF conf.py = "float" THEN Clamp(conf.val)
    ELSE 0

\* The confidence of the dict _parse_llm_response returns for the input.
parsed_confidence(input) ==
    LET conf == IF input.path = "extracted" THEN ExtractedConfidence(input.token)
                ELSE LoadedConfidence(input.token)
    IN IF conf.py = "ValueError" THEN fallback_parse_result.confidence[1]
       ELSE NormalizedConfidence(conf)

NoConfidenceInput == [path |-> "no call", token |-> [type |-> "absent", val |-> 0]]
\* Nothing returned yet.
NotNormalized == <<>>

\* The tier sets, scaled down to one domain each, and two of the suffixes.
TIER_1_DOMAINS == {"dw.com"}
TIER_2_DOMAINS == {"who.int"}
TIER_2_SUFFIXES == {".gov", ".eu"}
TIER_3_DOMAINS == {"npr.org"}
TIER_4_DOMAINS == {"x.com"}

\* A host name is a sequence of parts: a domain of a tier set, a suffix, the
\* prefix "www.", a domain in capitals, or other characters ("c"); no two
\* parts put together make a domain or a suffix of the sets.
DomainParts ==
    TIER_1_DOMAINS \cup TIER_2_DOMAINS \cup TIER_2_SUFFIXES \cup TIER_3_DOMAINS
        \cup TIER_4_DOMAINS \cup {"www.", "X.COM", "c"}

HostNames == UNION {[1..n -> DomainParts] : n \in 0..MaxDomainParts}

\* The URLs: the empty string, a text urlparse raises on, and the texts it
\* parses, with the host name it finds (<<>> when the URL has no host part).
Urls ==
    {[kind |-> k, netloc |-> <<>>] : k \in {"empty", "unparsable"}}
        \cup {[kind |-> "parsed", netloc |-> h] : h \in HostNames}

\* str.lower() on a part
LowerCased(part) == IF part = "X.COM" THEN "x.com" ELSE part

\* urlparse(url).netloc.lower().replace("www.", "")
DomainOf(netloc) ==
    LET lowered == [i \in 1..Len(netloc) |-> LowerCased(netloc[i])]
    IN SelectSeq(lowered, LAMBDA part : part # "www.")

\* t in domain
InDomain(t, domain) == \E i \in 1..Len(domain) : domain[i] = t

\* domain.endswith(suffix)
EndsWith(domain, suffix) == Len(domain) > 0 /\ domain[Len(domain)] = suffix

\* The tier sets tried from the last to the first.
classify_tier_LastFirst(url) ==
    IF url.kind # "parsed" THEN 4
    ELSE LET domain == DomainOf(url.netloc)
         IN IF \E t4 \in TIER_4_DOMAINS : InDomain(t4, domain) THEN 4
            ELSE IF \E t3 \in TIER_3_DOMAINS : InDomain(t3, domain) THEN 3
            ELSE IF \/ \E t2 \in TIER_2_DOMAINS : InDomain(t2, domain)
                    \/ \E suffix \in TIER_2_SUFFIXES : EndsWith(domain, suffix) THEN 2
            ELSE IF \E t1 \in TIER_1_DOMAINS : InDomain(t1, domain) THEN 1
            ELSE 3

\* _classify_tier(url)
classify_tier(url) ==
    IF url.kind = "empty" THEN 4
    ELSE IF url.kind = "unparsable" THEN 4
    ELSE LET domain == DomainOf(url.netloc)
         IN IF \E t1 \in TIER_1_DOMAINS : InDomain(t1, domain) THEN 1
            ELSE IF \E t2 \in TIER_2_DOMAINS : InDomain(t2, domain) THEN 2
            ELSE IF \E suffix \in TIER_2_SUFFIXES : EndsWith(domain, suffix) THEN 2
            ELSE IF \E t3 \in TIER_3_DOMAINS : InDomain(t3, domain) THEN 3
            ELSE IF \E t4 \in TIER_4_DOMAINS : InDomain(t4, domain) THEN 4
            ELSE 3

NoUrl == [kind |-> "no call", netloc |-> <<>>]
NoTier == <<>>

\* No call of the parser or of the classifier is under way.
IdleP ==
    /\ parse_in = NoText
    /\ parse_out = NotParsed
    /\ conf_in = NoConfidenceInput
    /\ conf_out = NotNormalized
    /\ tier_in = NoUrl
    /\ tier_out = NoTier

\* A raw text to parse; nothing returned yet.
InitP ==
    /\ parse_in \in RawTexts
    /\ parse_out = NotParsed
    /\ conf_in = NoConfidenceInput
    /\ conf_out = NotNormalized
    /\ tier_in = NoUrl
    /\ tier_out = NoTier

\* A raw text with a JSON object in it, of which the confidence is followed.
InitPC ==
    /\ parse_in = NoText
    /\ parse_out = NotParsed
    /\ conf_in \in ConfidenceInputs
    /\ conf_out = NotNormalized
    /\ tier_in = NoUrl
    /\ tier_out = NoTier

\* A URL to classify; nothing returned yet.
InitT ==
    /\ parse_in = NoText
    /\ parse_out = NotParsed
    /\ conf_in = NoConfidenceInput
    /\ conf_out = NotNormalized
    /\ tier_in \in Urls
    /\ tier_out = NoTier

\* self._parse_llm_response(content, text)
Parse ==
    /\ parse_in # NoText
    /\ parse_out = NotParsed
    /\ parse_out' = parse_llm_response(parse_in)
    /\ UNCHANGED <<parse_in, conf_in, conf_out, tier_in, tier_out>>
    /\ UNCHANGED notP

NextP == Parse

\* self._parse_llm_response(content, text), followed for the confidence.
ParseConfidence ==
    /\ conf_in # NoConfidenceInput
    /\ conf_out = NotNormalized
    /\ conf_out' = <<parsed_confidence(conf_in)>>
    /\ UNCHANGED <<parse_in, parse_out, conf_in, tier_in, tier_out>>
    /\ UNCHANGED notP

NextPC == ParseConfidence

\* tier=self._classify_tier(r.url)
ClassifyTier ==
    /\ tier_in # NoUrl
    /\ tier_out = NoTier
    /\ tier_out' = <<classify_tier(tier_in)>>
    /\ UNCHANGED <<parse_in, parse_out, conf_in, conf_out, tier_in>>
    /\ UNCHANGED notP

NextT == ClassifyTier

\* What VerificationResult(...) accepts: a verdict of the Literal, a
\* confidence within [0, 1], a string as reasoning.
AcceptedByModel(verdict, confidence, reasoning) ==
    /\ verdict \in Verdicts
    /\ confidence >= 0 /\ confidence <= 100
    /\ reasoning.kind = "str"

\* _validate_and_finalize raising, as the construction of the record does,
\* when the validator finds errors.
validate_and_finalize_ErrorsRaise(parsed, source_count, config_model) ==
    LET verdict == IF parsed.verdict = ABSENT THEN "UNVERIFIABLE" ELSE parsed.verdict
        confidence == IF parsed.confidence = <<>> THEN 0 ELSE parsed.confidence[1]
        reasoning == IF parsed.reasoning.kind = "absent"
                     THEN [kind |-> "str", text |-> <<>>] ELSE parsed.reasoning
    IN IF \/ ~AcceptedByModel(verdict, confidence, reasoning)
          \/ ReasoningErrors(reasoning.text, source_count) # <<>>
       THEN <<"raise", "ValidationError">>
       ELSE <<"ok", validate([statement |-> "claim",
                              verdict |-> verdict,
                              confidence |-> confidence,
                              reasoning |-> reasoning.text,
                              sources |-> source_count,
                              model_name |-> config_model,
                              usage |-> "None",
                              validation_passed |-> TRUE,
                              validation_errors |-> <<>>], source_count)>>

\* _validate_and_finalize(parsed, text, sources): <<"ok", the validated
\* result>> or <<"raise", the exception>>; parsed.get supplies the defaults.
validate_and_finalize(parsed, source_count, config_model) ==
    LET verdict == IF parsed.verdict = ABSENT THEN "UNVERIFIABLE" ELSE parsed.verdict
        confidence == IF parsed.confidence = <<>> THEN 0 ELSE parsed.confidence[1]
        reasoning == IF parsed.reasoning.kind = "absent"
                     THEN [kind |-> "str", text |-> <<>>] ELSE parsed.reasoning
    IN IF ~AcceptedByModel(verdict, confidence, reasoning)
       THEN <<"raise", "ValidationError">>
       ELSE <<"ok", validate([statement |-> "claim",
                              verdict |-> verdict,
                              confidence |-> confidence,
                              reasoning |-> reasoning.text,
                              sources |-> source_count,
                              model_name |-> config_model,
                              usage |-> "None",
                              validation_passed |-> TRUE,
                              validation_errors |-> <<>>], source_count)>>

\* From message.content to the result, as the chat-completions provider does
\* it: a dict is taken as parsed, anything else goes through the parser.
FromContent_DictToo(content, source_count, config_model) ==
    IF content.kind = "dict"
    THEN validate_and_finalize(content.obj, source_count, config_model)
    ELSE LET parsed == parse_llm_response(content)
         IN IF parsed[1] = "raise" THEN parsed
            ELSE validate_and_finalize(parsed[2], source_count, config_model)

\* From the content to the result, as the other two providers do it: the
\* parser first, whose strip() a dict does not have.
FromContent(content, source_count, config_model) ==
    IF content.kind = "dict" THEN <<"raise", "AttributeError">>
    ELSE LET parsed == parse_llm_response(content)
         IN IF parsed[1] = "raise" THEN parsed
            ELSE validate_and_finalize(parsed[2], source_count, config_model)

NO_SOURCES_CONFIDENCE == 10

\* The result without sources built as an error result is.
create_no_sources_result_ZeroConfidence(config_model) ==
    [statement |-> "claim", verdict |-> "UNVERIFIABLE", confidence |-> 0,
     reasoning |-> <<"No sources available to verify this claim.">>,
     sources |-> 0, model_name |-> config_model, usage |-> "None",
     validation_passed |-> TRUE, validation_errors |-> <<>>]

\* _create_no_sources_result(text)
create_no_sources_result(config_model) ==
    [statement |-> "claim", verdict |-> "UNVERIFIABLE",
     confidence |-> NO_SOURCES_CONFIDENCE,
     reasoning |-> <<"No sources available to verify this claim.">>,
     sources |-> 0, model_name |-> config_model, usage |-> "None",
     validation_passed |-> TRUE, validation_errors |-> <<>>]

\* _create_error_result(text, error, sources)
create_error_result(error, source_count, config_model) ==
    [statement |-> "claim", verdict |-> "UNVERIFIABLE", confidence |-> 0,
     reasoning |-> <<"Analysis failed: ", error>>,
     sources |-> source_count, model_name |-> config_model, usage |-> "None",
     validation_passed |-> TRUE, validation_errors |-> <<>>]

----------------------------------------------------------------------------
(* analyze_text of the three source-locked providers *)

\* The models as configured, repetitions kept.
Dedupe_KeepAll(models) == models

\* list(dict.fromkeys(models)): the first occurrence of each name, in order.
RECURSIVE Dedupe(_)
Dedupe(models) ==
    IF models = <<>> THEN <<>>
    ELSE LET rest == Dedupe(SubSeq(models, 1, Len(models) - 1))
             m == models[Len(models)]
         IN IF \E i \in 1..Len(rest) : rest[i] = m THEN rest ELSE Append(rest, m)

max_retries_per_model == 2

NoError == [kind |-> "None", model |-> "None"]

NoRetrieval == <<"none", 0>>

\* _get_search_results and _build_sources_list: no search manager, a search
\* that raised (logged, no results), or the results of the search.
Retrievals ==
    {<<"no search manager", 0>>, <<"search raised", 0>>}
        \cup {<<"results", n>> : n \in 0..MaxSources}

\* The handler of a provider catching only what the transport raises.
Caught_TransportOnly(exc) == exc = "ClientError"

\* `except Exception` around the call, the parsing and the validation: every
\* exception raised there is an Exception.
Caught(exc) == exc \in {"ClientError", "KeyError", "IndexError", "AttributeError",
                        "TypeError", "ValidationError"}

IdleLLM ==
    /\ llm_config = [provider |-> "openrouter", model |-> "model-a",
                     fallback_models |-> <<>>]
    /\ llm = create_llm_provider(llm_config)
    /\ llm_pc = "idle"
    /\ llm_sources = 0
    /\ models_to_try = <<>>
    /\ model_idx = 0
    /\ attempt = 0
    /\ last_error = NoError
    /\ llm_result = NoResult
    /\ llm_succeeded = FALSE
    /\ attempt_log = <<>>
    /\ last_outcome = "none"
    /\ last_content = "none"
    /\ llm_retrieval = NoRetrieval
    /\ health_checks = 0

\* The bot after `self.llm = create_llm_provider(self.config, ...)`, for any
\* configuration; no analysis has been asked for.
InitLLM ==
    /\ llm_config \in LLMConfigs
    /\ llm = create_llm_provider(llm_config)
    /\ llm_pc = "idle"
    /\ llm_sources = 0
    /\ models_to_try = <<>>
    /\ model_idx = 0
    /\ attempt = 0
    /\ last_error = NoError
    /\ llm_result = NoResult
    /\ llm_succeeded = FALSE
    /\ attempt_log = <<>>
    /\ last_outcome = "none"
    /\ last_content = "none"
    /\ llm_retrieval = NoRetrieval
    /\ health_checks = 0

\* analyze_text up to its first model call: retrieval, the sources, the
\* early return without sources, the chain.
AnalyzeStart ==
    /\ llm \in SourceLockedProviders
    /\ llm_pc = "idle"
    /\ \E retrieval \in Retrievals :
        LET n == retrieval[2]
        IN IF n = 0
           THEN /\ llm_retrieval' = retrieval
                /\ llm_result' = create_no_sources_result(llm_config.model)
                /\ llm_pc' = "returned"
                /\ UNCHANGED <<llm_sources, models_to_try, model_idx, attempt>>
           ELSE /\ llm_retrieval' = retrieval
                /\ llm_sources' = n
                /\ models_to_try' =
                      IF llm = "OpenRouterProvider"
                      THEN Dedupe(<<llm_config.model>> \o llm_config.fallback_models)
                      ELSE <<llm_config.model>>
                /\ model_idx' = 1
                /\ attempt' = 1
                /\ llm_pc' = "calling"
                /\ UNCHANGED llm_result
    /\ UNCHANGED <<llm_config, llm, last_error, llm_succeeded, attempt_log,
                   last_outcome, last_content, health_checks>>
    /\ UNCHANGED notLLM

\* The loops with `break` in the place of `continue`: a model is left after
\* its first failed attempt.
AfterFailedAttempt_AlwaysBreak(error, leave_model) ==
    /\ last_error' = error
    /\ IF model_idx < Len(models_to_try)
       THEN /\ model_idx' = model_idx + 1
            /\ attempt' = 1
            /\ UNCHANGED llm_pc
       ELSE /\ llm_pc' = "exhausted"
            /\ UNCHANGED <<model_idx, attempt>>
    /\ UNCHANGED <<llm_result, llm_succeeded>>

\* The loops with `continue` in the place of `break`: a model is left only
\* after its last attempt.
AfterFailedAttempt_NeverBreak(error, leave_model) ==
    /\ last_error' = error
    /\ IF attempt < max_retries_per_model
       THEN /\ attempt' = attempt + 1
            /\ UNCHANGED <<model_idx, llm_pc>>
       ELSE IF model_idx < Len(models_to_try)
            THEN /\ model_idx' = model_idx + 1
                 /\ attempt' = 1
                 /\ UNCHANGED llm_pc
            ELSE /\ llm_pc' = "exhausted"
                 /\ UNCHANGED <<model_idx, attempt>>
    /\ UNCHANGED <<llm_result, llm_succeeded>>

\* The loops of the chat-completions provider after a failed attempt:
\* `continue` and the exception handler go to the next attempt of the model or,
\* after the last one, to the next model; `break` goes to the next model.
\* After the last model the loops are left.
AfterFailedAttempt(error, leave_model) ==
    /\ last_error' = error
    /\ IF ~leave_model /\ attempt < max_retries_per_model
       THEN /\ attempt' = attempt + 1
            /\ UNCHANGED <<model_idx, llm_pc>>
       ELSE IF model_idx < Len(models_to_try)
            THEN /\ model_idx' = model_idx + 1
                 /\ attempt' = 1
                 /\ UNCHANGED llm_pc
            ELSE /\ llm_pc' = "exhausted"
                 /\ UNCHANGED <<model_idx, attempt>>
    /\ UNCHANGED <<llm_result, llm_succeeded>>

\* An exception raised inside the try block of an attempt.
AttemptRaised(exc, model_name) ==
    IF Caught(exc)
    THEN AfterFailedAttempt([kind |-> "Internal error", model |-> model_name], FALSE)
    ELSE /\ llm_pc' = "raised"
         /\ UNCHANGED <<model_idx, attempt, last_error, llm_result, llm_succeeded>>

\* What one POST to /chat/completions can come to.
AttemptOutcomes ==
    {[kind |-> k, content |-> [kind |-> "None", obj |-> NoObject]] :
        k \in {"5xx", "429", "4xx", "invalid JSON", "no choices",
               "transport exception", "malformed choice"}}
        \cup {[kind |-> "content", content |-> c] : c \in Contents}

\* What a model call came to: the status or the defect of the response,
\* "raised" for an exception raised by the transport or the unwrapping of the
\* envelope, "content raised" for an exception raised while the content of a
\* well-formed envelope was parsed and validated, "ok" for a response that
\* gave the result.
Observed(outcome, finalized) ==
    IF outcome.kind \in {"transport exception", "malformed choice",
                         "malformed envelope", "api exception"}
    THEN "raised"
    ELSE IF outcome.kind # "content" THEN outcome.kind
    ELSE IF finalized[1] = "raise" THEN "content raised"
    ELSE "ok"

\* How a model call ended, as the log keeps it: a server error, a client
\* error, any other failure, or the response that gave the result.
Ending(observed) ==
    IF observed \in {"5xx", "4xx", "ok"} THEN observed ELSE "failed"

\* The record a content holds once it is loaded: a dict as it is, the object
\* of a text as _parse_llm_response normalizes it.
RecordOf(content) ==
    IF content.kind = "dict" THEN content.obj ELSE Normalized(content.obj)

\* The reasoning VerificationResult(...) is given for a record:
\* parsed.get("reasoning", "").
ReasoningOf(record) ==
    IF record.reasoning.kind = "absent" THEN [kind |-> "str", text |-> <<>>]
    ELSE record.reasoning

\* The record is one VerificationResult(...) is built from: the validator
\* gets to see it.
Built(record) ==
    AcceptedByModel(IF record.verdict = ABSENT THEN "UNVERIFIABLE" ELSE record.verdict,
                    IF record.confidence = <<>> THEN 0 ELSE record.confidence[1],
                    ReasoningOf(record))

\* How the content of a response is unusable: a text in which no stage of the
\* parser finds an object ("unparsed text"), a record that was built and in
\* whose reasoning the validator finds a citation error ("uncited record"), or
\* neither ("none": no content, a usable one, or one whose processing raises).
\* as_loaded: the provider takes a dict content as the parsed record.
Unusable(content, as_loaded, source_count) ==
    IF content.kind = "garbage" THEN "unparsed text"
    ELSE IF /\ content.kind = "object" \/ (content.kind = "dict" /\ as_loaded)
            /\ Built(RecordOf(content))
            /\ ReasoningErrors(ReasoningOf(RecordOf(content)).text, source_count) # <<>>
         THEN "uncited record"
    ELSE "none"

\* The log and the latest outcome after a call to model_name.
Logged(model_name, observed, unusable) ==
    /\ attempt_log' = Append(attempt_log,
                             [model |-> model_name, outcome |-> Ending(observed)])
    /\ last_outcome' = observed
    /\ last_content' = unusable

\* OpenRouterProvider.analyze_text: one pass of the attempt loop.
ChatCompletionAttempt ==
    /\ llm = "OpenRouterProvider"
    /\ llm_pc = "calling"
    /\ LET model_name == models_to_try[model_idx]
       IN \E outcome \in AttemptOutcomes :
          /\ Logged(model_name,
                    Observed(outcome, FromContent_DictToo(outcome.content, llm_sources,
                                                          llm_config.model)),
                    IF outcome.kind # "content" THEN "none"
                    ELSE Unusable(outcome.content, TRUE, llm_sources))
          /\
            CASE outcome.kind \in {"5xx", "429"} ->
                    AfterFailedAttempt([kind |-> "Provider Error", model |-> model_name],
                                       FALSE)
              [] outcome.kind = "4xx" ->
                    AfterFailedAttempt([kind |-> "Client Error", model |-> model_name],
                                       TRUE)
              [] outcome.kind = "invalid JSON" ->
                    AfterFailedAttempt([kind |-> "API returned invalid JSON",
                                        model |-> model_name], FALSE)
              [] outcome.kind = "no choices" ->
                    AfterFailedAttempt([kind |-> "API response missing 'choices'",
                                        model |-> model_name], FALSE)
              [] outcome.kind = "transport exception" ->
                    AttemptRaised("ClientError", model_name)
              [] outcome.kind = "malformed choice" ->
                    AttemptRaised("KeyError", model_name)
              [] OTHER ->
                    LET finalized == FromContent_DictToo(outcome.content, llm_sources,
                                                         llm_config.model)
                    IN IF finalized[1] = "raise"
                       THEN AttemptRaised(finalized[2], model_name)
                       ELSE /\ llm_result' = [finalized[2] EXCEPT
                                                 !.model_name = model_name]
                            /\ llm_succeeded' = TRUE
                            /\ llm_pc' = "returned"
                            /\ UNCHANGED <<model_idx, attempt, last_error>>
    /\ UNCHANGED <<llm_config, llm, llm_sources, models_to_try, llm_retrieval,
                   health_checks>>
    /\ UNCHANGED notLLM

\* _check_health(): it returns a diagnostic whatever the endpoint does.
HealthStatuses ==
    {"Endpoint is reachable (GET /models 200 OK).",
     "Endpoint reachable (404 on /models, server is up).",
     "Endpoint reachable but returned another status.",
     "Endpoint check timed out (5s).",
     "Endpoint check failed"}

\* The terminal result naming the configured model only.
TerminalResult_PrimaryOnly(health_status) ==
    [statement |-> "claim", verdict |-> "UNVERIFIABLE", confidence |-> 0,
     reasoning |-> <<"Failed after trying models ", llm_config.model,
                     ". Last error: ", last_error.kind, last_error.model,
                     "Diagnostic: ", health_status>>,
     sources |-> llm_sources, model_name |-> llm_config.model,
     usage |-> "None", validation_passed |-> TRUE, validation_errors |-> <<>>]

\* The VerificationResult built after the loops (openai_compatible.py:158-165).
TerminalResult(health_status) ==
    [statement |-> "claim", verdict |-> "UNVERIFIABLE", confidence |-> 0,
     reasoning |-> <<"Failed after trying models ">> \o models_to_try
                       \o <<". Last error: ", last_error.kind, last_error.model,
                            "Diagnostic: ", health_status>>,
     sources |-> llm_sources, model_name |-> llm_config.model,
     usage |-> "None", validation_passed |-> TRUE, validation_errors |-> <<>>]

\* OpenRouterProvider.analyze_text after the loops: the health check and the
\* terminal result.
ChainExhausted ==
    /\ llm = "OpenRouterProvider"
    /\ llm_pc = "exhausted"
    /\ \E health_status \in HealthStatuses :
        llm_result' = TerminalResult(health_status)
    /\ health_checks' = health_checks + 1
    /\ llm_pc' = "returned"
    /\ UNCHANGED <<llm_config, llm, llm_sources, models_to_try, model_idx, attempt,
                   last_error, llm_succeeded, attempt_log,
                   last_outcome, last_content, llm_retrieval>>
    /\ UNCHANGED notLLM

\* An exception raised inside the try block of a single-call provider.
CallRaised(exc) ==
    IF Caught(exc)
    THEN /\ llm_result' = create_error_result(exc, llm_sources, llm_config.model)
         /\ llm_pc' = "returned"
         /\ UNCHANGED llm_succeeded
    ELSE /\ llm_pc' = "raised"
         /\ UNCHANGED <<llm_result, llm_succeeded>>

\* The content of a single-call provider parsed, validated and returned.
CallReturned(content) ==
    LET finalized == FromContent(content, llm_sources, llm_config.model)
    IN IF finalized[1] = "raise"
       THEN CallRaised(finalized[2])
       ELSE /\ llm_result' = finalized[2]
            /\ llm_succeeded' = TRUE
            /\ llm_pc' = "returned"

\* What the POST to /v1/messages can come to.
MessagesOutcomes ==
    {[kind |-> k, content |-> [kind |-> "None", obj |-> NoObject]] :
        k \in {"not 200", "transport exception", "malformed envelope"}}
        \cup {[kind |-> "content", content |-> c] : c \in Contents}

\* AnthropicProvider.analyze_text: the call and what follows it.
AnthropicCall ==
    /\ llm = "AnthropicProvider"
    /\ llm_pc = "calling"
    /\ \E outcome \in MessagesOutcomes :
      /\ Logged(llm_config.model,
                Observed(outcome, FromContent(outcome.content, llm_sources,
                                              llm_config.model)),
                IF outcome.kind # "content" THEN "none"
                ELSE Unusable(outcome.content, FALSE, llm_sources))
      /\
        CASE outcome.kind = "not 200" ->
                /\ llm_result' = create_error_result("API error", llm_sources,
                                                     llm_config.model)
                /\ llm_pc' = "returned"
                /\ UNCHANGED llm_succeeded
          [] outcome.kind = "transport exception" -> CallRaised("ClientError")
          [] outcome.kind = "malformed envelope" -> CallRaised("KeyError")
          [] OTHER -> CallReturned(outcome.content)
    /\ UNCHANGED <<llm_config, llm, llm_sources, models_to_try, model_idx, attempt,
                   last_error, llm_retrieval, health_checks>>
    /\ UNCHANGED notLLM

\* What client.chat.completions.create can come to: the SDK raises on every
\* failure of the call.
CompletionOutcomes ==
    {[kind |-> k, content |-> [kind |-> "None", obj |-> NoObject]] :
        k \in {"api exception", "no choices"}}
        \cup {[kind |-> "content", content |-> c] : c \in Contents}

\* OpenAISDKProvider.analyze_text: the call and what follows it.
SDKCall ==
    /\ llm = "OpenAISDKProvider"
    /\ llm_pc = "calling"
    /\ \E outcome \in CompletionOutcomes :
      /\ Logged(llm_config.model,
                Observed(outcome, FromContent(outcome.content, llm_sources,
                                              llm_config.model)),
                IF outcome.kind # "content" THEN "none"
                ELSE Unusable(outcome.content, FALSE, llm_sources))
      /\
        CASE outcome.kind = "api exception" -> CallRaised("ClientError")
          [] outcome.kind = "no choices" -> CallRaised("IndexError")
          [] OTHER -> CallReturned(outcome.content)
    /\ UNCHANGED <<llm_config, llm, llm_sources, models_to_try, model_idx, attempt,
                   last_error, llm_retrieval, health_checks>>
    /\ UNCHANGED notLLM

NextLLM == AnalyzeStart \/ ChatCompletionAttempt \/ ChainExhausted
               \/ AnthropicCall \/ SDKCall

----------------------------------------------------------------------------
(* NagromBot: the worker tasks over reload_llm_provider and close *)

\* The tasks that have not ended.
RunningTasks == {t \in 1..Len(tasks) : tasks[t] # "done"}

\* task.cancel() for every task of the list: a task that waits in get or in
\* its job gets CancelledError there, which neither handler of the worker
\* catches, and ends; it takes no job any more. The other tasks go on.
CancelTracked == [t \in 1..Len(tasks) |-> IF t \in tracked THEN "done" ELSE tasks[t]]

\* for _ in range(2): create_task(self._fact_check_worker()), appended to list
StartWorkers(pool, list) ==
    LET first == Len(pool) + 1
        last == Len(pool) + WORKERS_PER_START
    IN [pool |-> pool \o [i \in 1..WORKERS_PER_START |-> "get"],
        list |-> list \cup (first..last)]

\* NagromBot.__init__: self._worker_tasks = [], no task exists.
InitS ==
    /\ tasks = <<>>
    /\ tracked = {}
    /\ reloading = 0
    /\ reload_calls = 0
    /\ closed = FALSE
    /\ got_after_close = FALSE

\* setup_hook: load_active_config awaits reload_llm_provider, which finds the
\* list empty and starts its workers; setup_hook then starts its own. No
\* command is served before it has returned.
setup_hook ==
    /\ tasks = <<>>
    /\ ~closed
    /\ LET reloaded == StartWorkers(tasks, {})
           started == StartWorkers(reloaded.pool, reloaded.list)
       IN /\ tasks' = started.pool
          /\ tracked' = started.list
    /\ UNCHANGED <<reloading, reload_calls, closed, got_after_close>>
    /\ UNCHANGED notS

\* reload_llm_provider up to its await: every task of the list is cancelled,
\* and the call is suspended in asyncio.gather.
reload_cancel ==
    /\ tasks # <<>>
    /\ ~closed
    /\ reload_calls < MaxReloads
    /\ reload_calls' = reload_calls + 1
    /\ tasks' = CancelTracked
    /\ reloading' = reloading + 1
    /\ UNCHANGED <<tracked, closed, got_after_close>>
    /\ UNCHANGED notS

\* reload_llm_provider from its await on: the gathered tasks have ended; the
\* list is replaced by an empty one, the provider is built, and the workers
\* are started and appended.
reload_restart ==
    /\ reloading > 0
    /\ reloading' = reloading - 1
    /\ LET started == StartWorkers(tasks, {})
       IN /\ tasks' = started.pool
          /\ tracked' = started.list
    /\ UNCHANGED <<reload_calls, closed, got_after_close>>
    /\ UNCHANGED notS

\* close(): every task of the list is cancelled; the awaits of the webhook
\* manager, the database and the client follow.
close ==
    /\ tasks # <<>>
    /\ ~closed
    /\ closed' = TRUE
    /\ tasks' = CancelTracked
    /\ UNCHANGED <<tracked, reloading, reload_calls, got_after_close>>
    /\ UNCHANGED notS

\* job = await self.fact_check_queue.get(), a job being there.
worker_get(t) ==
    /\ tasks[t] = "get"
    /\ tasks' = [tasks EXCEPT ![t] = "job"]
    /\ got_after_close' = (got_after_close \/ closed)
    /\ UNCHANGED <<tracked, reloading, reload_calls, closed>>
    /\ UNCHANGED notS

\* The job is processed, task_done is called and the loop goes on.
worker_loop(t) ==
    /\ tasks[t] = "job"
    /\ tasks' = [tasks EXCEPT ![t] = "get"]
    /\ UNCHANGED <<tracked, reloading, reload_calls, closed, got_after_close>>
    /\ UNCHANGED notS

worker_step == \E t \in 1..Len(tasks) : worker_get(t) \/ worker_loop(t)

NextShutdown == setup_hook \/ reload_cancel \/ reload_restart \/ close \/ worker_step

NoCommit == [user |-> 0, refilled |-> 0, buckets |-> <<>>, cooling |-> {}, reset_ts |-> 0]
NoAdmit == [checked |-> FALSE, guild |-> NoGuild, usage |-> [g \in GuildKeys |-> 0],
            commit |-> NoCommit]

\* NagromBot.__init__ and the cogs: no handler has run.
InitH ==
    /\ handler_calls = 0
    /\ pending = {}
    /\ admit_hist = NoAdmit
    /\ admitted = [u \in Users |-> 0]
    /\ enqueued = [u \in Users |-> 0]

\* The validator alone: the rate limiter stays as constructed.
InitSpecV == InitV /\ InitRL /\ bucket_refill_rate = 1 /\ InitQ /\ IdleLLM /\ IdleP /\ InitH /\ InitS

SpecV == InitSpecV /\ [][NextV]_vars

\* The validator alone, over reasonings made of citation tags.
InitSpecVC == InitVC /\ InitRL /\ bucket_refill_rate = 1 /\ InitQ /\ IdleLLM /\ IdleP /\ InitH /\ InitS

SpecVC == InitSpecVC /\ [][NextV]_vars

NextRL == CheckAny \/ Tick

\* The rate limiter alone: no record is under validation.
IdleV ==
    /\ v_sources = 0
    /\ v_in = NoResult
    /\ v_out = NoResult

InitSpecRL == InitRL /\ IdleV /\ InitQ /\ IdleLLM /\ IdleP /\ InitH /\ InitS

SpecRL == InitSpecRL /\ [][NextRL]_vars

\* The limiter on the requests of the guilds, over the end of the first day.
NextWindow == CheckGuild \/ Tick

SpecWindow == InitSpecRL /\ [][NextWindow]_vars

\* The token bucket alone: the limiter without cooldown, on direct messages.
NextTB == CheckDirect \/ Tick

InitSpecTB == InitTB /\ IdleV /\ InitQ /\ IdleLLM /\ IdleP /\ InitH /\ InitS

SpecTB == InitSpecTB /\ [][NextTB]_vars

\* The cooldown and the bucket under the configurations with a cooldown, on
\* direct messages.
InitSpecGate == InitGate /\ IdleV /\ InitQ /\ IdleLLM /\ IdleP /\ InitH /\ InitS

SpecGate == InitSpecGate /\ [][NextTB]_vars

\* The queue and the workers alone.
InitSpecQ == InitQ /\ InitRL /\ bucket_refill_rate = 1 /\ IdleV /\ IdleLLM /\ IdleP /\ InitH /\ InitS

SpecQ == InitSpecQ /\ [][NextQ]_vars

\* The provider alone.
InitSpecLLM == InitLLM /\ InitRL /\ bucket_refill_rate = 1 /\ IdleV /\ InitQ /\ IdleP /\ InitH /\ InitS

SpecLLM == InitSpecLLM /\ [][NextLLM]_vars

Cancelled == [status |-> "cancelled", pc |-> "none", job |-> 0, result |-> "none",
     message |-> "no value"]

\* reload_llm_provider: every worker task is cancelled and awaited (a worker
\* cancelled inside its try block runs the finally clause, task_done), the
\* list is emptied, the provider is built again from the configuration, and
\* WORKERS_PER_START workers are started.
ReloadCall(config) ==
    /\ Started
    /\ LET interrupted == {w \in WorkerIds : /\ worker_tasks[w].status = "running"
                                             /\ worker_tasks[w].pc # "get"}
           rebuilt == create_llm_provider(config) \in SourceLockedProviders
       IN /\ unfinished_tasks' = unfinished_tasks - Cardinality(interrupted)
          /\ worker_tasks' = [w \in WorkerIds |->
                                 IF rebuilt /\ w <= WORKERS_PER_START
                                 THEN Waiting ELSE Cancelled]
          /\ abandoned' = abandoned \cup {worker_tasks[w].job : w \in interrupted}
    /\ UNCHANGED <<fact_check_queue, last_caught, dequeued, handed>>

\* reload_llm_provider under the configuration of the bot.
ReloadLLMProvider ==
    /\ ReloadCall(llm_config)
    /\ WorkerStepFrame

\* The configurations the owner's commands set: the provider of the bot, or
\* the Google provider.
ReloadConfigs ==
    {c \in LLMConfigs : /\ c.provider \in {"openrouter", "google"}
                        /\ c.model = "model-a"
                        /\ c.fallback_models = <<>>}

\* The configuration commands: self.bot.config.llm = LLMConfig(...), then
\* await self.bot.reload_llm_provider(); when the factory raises, the reload
\* ends there, self.llm keeps the old provider and no worker is started.
ConfigReload ==
    \E config \in ReloadConfigs :
        /\ ReloadCall(config)
        /\ llm_config' = config
        /\ llm' = IF create_llm_provider(config) \in SourceLockedProviders
                  THEN create_llm_provider(config) ELSE llm
        /\ submit_ret' = NoSubmit
        /\ submit_hist' = NoSubmitHist
        /\ UNCHANGED <<submit_calls, queue_log>>
        /\ UNCHANGED <<llm_pc, llm_sources, models_to_try, model_idx, attempt,
                       last_error, llm_result, llm_succeeded, attempt_log,
                       last_outcome, last_content, llm_retrieval, health_checks>>
        /\ UNCHANGED <<rlVars, vVars, pVars, hVars, sVars, wVars>>

NextReconfig == SetupHook \/ SubmitFactCheck \/ WorkerStep \/ ConfigReload

NextPool == SetupHook \/ SubmitFactCheck \/ WorkerStep \/ ReloadLLMProvider

----------------------------------------------------------------------------
(* The handlers that call check and submit_fact_check *)

\* `guild_id or 0`, the group argument every handler passes to check.
OrZero(guild_id) == IF guild_id = NoGuild THEN 0 ELSE guild_id

\* Handlers with no await between check and submit_fact_check: the message
\* listener and the /check command of the setup cog.
DirectPaths == {"message", "setup"}
\* Handlers that await the sending of a placeholder message in between: the
\* /check command and the two context-menu handlers.
PlaceholderPaths == {"slash", "context"}
CheckedPaths == DirectPaths \cup PlaceholderPaths

\* The jobs of the requester once its handler has called submit_fact_check.
EnqueuedAfterSubmit(user_id) ==
    IF QueueIsFull(fact_check_queue) THEN enqueued
    ELSE [enqueued EXCEPT ![user_id] = @ + 1]

NoSubmitCall ==
    /\ submit_ret' = NoSubmit
    /\ submit_hist' = NoSubmitHist
    /\ UNCHANGED <<fact_check_queue, unfinished_tasks, worker_tasks, submit_calls,
                   last_caught, queue_log, dequeued, handed, abandoned>>

\* What an allowed check of the requester finds: the tokens it has, the
\* buckets as they are, the requesters with a live cooldown entry, and the
\* timestamp of the last sweep.
FoundByCommit(user_id) ==
    [user |-> user_id,
     refilled |-> TokensAvailable(user_id),
     buckets |-> token_buckets,
     cooling |-> {v \in Users : HasCooldownEntry(v)},
     reset_ts |-> guild_usage_reset_ts]

\* A handler from its call of rate_limiter.check to its first await: a
\* rejected request is answered with the reason; an allowed one is submitted
\* at once on the direct paths, and waits for its placeholder on the others.
HandleRequest(path, user_id, guild_id) ==
    LET allowed == CheckReason(user_id, OrZero(guild_id)) = REASON_OK
        h == [user |-> user_id, guild |-> guild_id]
    IN
    /\ Started
    /\ handler_calls < MaxHandlerCalls
    /\ h \notin pending
    /\ handler_calls' = handler_calls + 1
    /\ CheckCall(user_id, OrZero(guild_id))
    /\ admit_hist' = [checked |-> TRUE, guild |-> guild_id,
                      usage |-> UsageAfterReset(now),
                      commit |-> IF allowed THEN FoundByCommit(user_id) ELSE NoCommit]
    /\ admitted' = IF allowed THEN [admitted EXCEPT ![user_id] = @ + 1] ELSE admitted
    /\ IF allowed /\ path \in DirectPaths
       THEN /\ SubmitCall
            /\ enqueued' = EnqueuedAfterSubmit(user_id)
       ELSE /\ NoSubmitCall
            /\ UNCHANGED enqueued
    /\ pending' = IF allowed /\ path \in PlaceholderPaths
                  THEN pending \cup {h} ELSE pending
    /\ UNCHANGED notRLQ

\* placeholder_msg = await interaction.followup.send(..., wait=True), then
\* submit_fact_check; if the sending raises, the handler ends without it.
PlaceholderSent(h) ==
    /\ h \in pending
    /\ pending' = pending \ {h}
    /\ \E outcome \in {"sent", "raised"} :
          IF outcome = "sent"
          THEN /\ SubmitCall
               /\ enqueued' = EnqueuedAfterSubmit(h.user)
          ELSE /\ NoSubmitCall
               /\ UNCHANGED enqueued
    /\ admit_hist' = [checked |-> FALSE, guild |-> h.guild, usage |-> guild_usage,
                      commit |-> FoundByCommit(h.user)]
    /\ UNCHANGED <<handler_calls, admitted>>
    /\ UNCHANGED <<rlVars, notRLQ>>

\* The retry command of the owner: the stored fact check is submitted again,
\* with the author of the command as requester.
RetryCheck(user_id) ==
    /\ handler_calls < MaxHandlerCalls
    /\ handler_calls' = handler_calls + 1
    /\ SubmitCall
    /\ enqueued' = EnqueuedAfterSubmit(user_id)
    /\ UNCHANGED <<pending, admit_hist, admitted>>
    /\ UNCHANGED <<rlVars, notRLQ>>

HandleAny == \E path \in CheckedPaths, u \in Users, g \in GuildArgs : HandleRequest(path, u, g)
PlaceholderAny == \E h \in pending : PlaceholderSent(h)
RetryAny == \E u \in Users : RetryCheck(u)

NextAdmit == SetupHook \/ HandleAny \/ PlaceholderAny \/ RetryAny \/ Tick

\* The handlers over the limiter and the queue; no worker takes a job.
InitSpecAdmit == InitRL /\ bucket_refill_rate = 1 /\ IdleV /\ InitQ /\ IdleLLM /\ IdleP /\ InitH /\ InitS

SpecAdmit == InitSpecAdmit /\ [][NextAdmit]_vars

\* The handlers on the requests of one requester, in every guild and outside,
\* while the owner's retries fill the queue.
HandleOne == \E path \in CheckedPaths, g \in GuildArgs : HandleRequest(path, 1, g)

NextRefuse == SetupHook \/ HandleOne \/ PlaceholderAny \/ RetryAny \/ Tick

SpecRefuse == InitSpecAdmit /\ [][NextRefuse]_vars

\* The worker tasks over reloads and shutdown; the queue always has a job.
InitSpecShutdown == InitS /\ InitRL /\ bucket_refill_rate = 1 /\ IdleV /\ InitQ /\ IdleLLM /\ IdleP /\ InitH

SpecShutdown == InitSpecShutdown /\ [][NextShutdown]_vars

\* The steps of one worker task.
WorkerOf(w) == WorkerGet(w) \/ WorkerAnalyze(w) \/ WorkerDeliver(w) \/ WorkerStore(w)

\* The queue and the workers with no reload and no shutdown, under fair
\* scheduling: a worker task that can take a step is eventually run, and every
\* call it awaits eventually returns or raises.
FairQ == SpecQ /\ \A w \in WorkerIds : WF_vars(WorkerOf(w))

\* The queue and the workers, with the configuration commands of the owner.
SpecReconfig == InitSpecQ /\ [][NextReconfig]_vars

\* The queue and the workers, with reloads of the provider.
SpecPool == InitSpecQ /\ [][NextPool]_vars

\* The parser alone.
InitSpecP == InitP /\ InitRL /\ bucket_refill_rate = 1 /\ IdleV /\ InitQ /\ IdleLLM /\ InitH /\ InitS

SpecP == InitSpecP /\ [][NextP]_vars

\* The parser on the confidence of a raw text.
InitSpecPC == InitPC /\ InitRL /\ bucket_refill_rate = 1 /\ IdleV /\ InitQ /\ IdleLLM /\ InitH /\ InitS

SpecPC == InitSpecPC /\ [][NextPC]_vars

\* _classify_tier on one URL.
InitSpecT == InitT /\ InitRL /\ bucket_refill_rate = 1 /\ IdleV /\ InitQ /\ IdleLLM /\ InitH /\ InitS

SpecT == InitSpecT /\ [][NextT]_vars

----------------------------------------------------------------------------
(* Claims about RateLimiter.check, under SpecRL *)

Called == check_ret # NoCall

\* C1: a check made by a requester after an allowed check of that requester and
\* before the cooldown time-to-live has elapsed returns not-allowed with the
\* cooldown reason, whatever the bucket and the group counter hold.
C1_CooldownAlwaysBlocks ==
    (Called /\ check_hist.in_window) => check_ret = <<FALSE, REASON_COOLDOWN>>

\* C2 as stated: a check that returns not-allowed leaves every bucket, every
\* cooldown entry, every group counter and the reset timestamp as they were.
C2_RejectedChangesNothing ==
    (Called /\ ~check_ret[1]) =>
        <<token_buckets, user_cooldowns, guild_usage, guild_usage_reset_ts>>
            = check_hist.before

\* C2 amended: a check that returns not-allowed leaves every bucket and every
\* cooldown entry as they were; it leaves the group counters and the reset
\* timestamp as they were unless 24 hours have passed since the last sweep, and
\* then every counter is 0 and the reset timestamp is the time of the call.
C2_RejectedOnlySweeps ==
    (Called /\ ~check_ret[1]) =>
        /\ token_buckets = check_hist.before[1]
        /\ user_cooldowns = check_hist.before[2]
        /\ check_hist.sweep = <<>> =>
              /\ guild_usage = check_hist.before[3]
              /\ guild_usage_reset_ts = check_hist.before[4]
        /\ check_hist.sweep # <<>> =>
              /\ guild_usage = [h \in GuildKeys |-> 0]
              /\ guild_usage_reset_ts = check_hist.sweep[2]

\* A rejected check has swept counters that were in use.
C2_Witness ==
    /\ Called /\ ~check_ret[1]
    /\ check_hist.sweep # <<>>
    /\ \E g \in GuildIds : check_hist.before[3][g] > 0

\* C9: the gates are evaluated in the order cooldown, token bucket, group daily
\* quota, and the reason returned is that of the first gate that rejects.
C9_GateOrder ==
    Called =>
        /\ check_hist.has_entry => check_ret = <<FALSE, REASON_COOLDOWN>>
        /\ (~check_hist.has_entry /\ ~check_hist.has_token)
              => check_ret = <<FALSE, REASON_BURST>>
        /\ (~check_hist.has_entry /\ check_hist.has_token /\ check_hist.at_limit)
              => check_ret = <<FALSE, REASON_DAILY>>
        /\ (~check_hist.has_entry /\ check_hist.has_token /\ ~check_hist.at_limit)
              => check_ret = <<TRUE, REASON_OK>>

\* A check was called with all three gates rejecting: a cooldown entry, an
\* empty bucket and a group at its limit.
C9_Witness ==
    /\ Called
    /\ check_hist.has_entry /\ ~check_hist.has_token /\ check_hist.at_limit

\* C10: once the allowed checks of a group since the last sweep have reached the
\* daily limit, a check for that group that passes the cooldown and bucket gates
\* returns the daily-limit reason; and a check made 24 hours or more after the
\* last sweep zeroes the counter of every group at once (its own group then
\* counts that check, if it is allowed).
C10_DailyLimitAndSweep ==
    Called =>
        /\ (check_hist.quota_used /\ ~check_hist.has_entry /\ check_hist.has_token)
              => check_ret = <<FALSE, REASON_DAILY>>
        /\ check_hist.sweep # <<>> =>
              \A h \in GuildIds :
                  guild_usage[h] = IF h = check_hist.sweep[1] /\ check_ret[1]
                                   THEN 1 ELSE 0

\* A check for a group whose quota was used up passed the two first gates.
C10_Witness ==
    /\ Called
    /\ check_hist.quota_used /\ ~check_hist.has_entry /\ check_hist.has_token

----------------------------------------------------------------------------
(* Claims about ResponseValidator.validate, checked under SpecV *)

Validated == v_out # NoResult

\* C7: when validate finds at least one violation, the result it returns has
\* verdict UNVERIFIABLE, confidence 0.15, validation_passed false and a
\* non-empty violation list, and keeps the statement, the sources and the model
\* name; when it finds none, verdict, confidence and reasoning are returned
\* unchanged with validation_passed true and an empty violation list.
C7_ValidateContract ==
    Validated =>
        IF ValidationErrors(v_in, v_sources) # <<>>
        THEN /\ v_out.verdict = "UNVERIFIABLE"
             /\ v_out.confidence = 15
             /\ v_out.validation_passed = FALSE
             /\ v_out.validation_errors # <<>>
             /\ v_out.statement = v_in.statement
             /\ v_out.sources = v_in.sources
             /\ v_out.model_name = v_in.model_name
        ELSE /\ v_out.verdict = v_in.verdict
             /\ v_out.confidence = v_in.confidence
             /\ v_out.reasoning = v_in.reasoning
             /\ v_out.validation_passed = TRUE
             /\ v_out.validation_errors = <<>>

\* A TRUE record of confidence 0.90 citing [3] with two sources was downgraded.
C7_Witness ==
    /\ Validated
    /\ v_sources = 2
    /\ v_in.verdict = "TRUE"
    /\ v_in.confidence = 90
    /\ v_in.reasoning = <<"[", "3", "]">>
    /\ v_out.verdict = "UNVERIFIABLE"
    /\ v_out.validation_errors = <<"Citation [3] out of range (have 2 sources)">>

\* C8: validate reports a violation for every record whose reasoning has no
\* [N] citation tag while at least one source was supplied, the record with
\* the empty reasoning included.
C8_UncitedIsViolation ==
    (Validated /\ v_sources > 0 /\ CitationsFound(v_in.reasoning) = <<>>)
        => (v_out.validation_passed = FALSE /\ v_out.validation_errors # <<>>)

----------------------------------------------------------------------------
(* Claims about the queue and the workers, checked under SpecQ *)

Submitted == submit_hist.job # 0

HoldsJob(w) == worker_tasks[w].pc \in {"analyze", "deliver", "store"}

\* C3: the queue of capacity queue_max_size never holds more jobs than that,
\* whatever the interleaving of submits and dequeues; a submit made while
\* queue_max_size jobs are queued returns (False, queue-full reason) in its one
\* step and leaves the queued jobs and their order as they were.
C3_QueueBounded ==
    /\ Len(fact_check_queue) <= queue_max_size
    /\ (Submitted /\ submit_hist.full) =>
           /\ submit_ret = <<FALSE, QUEUE_FULL_REASON>>
           /\ fact_check_queue = submit_hist.queue

\* A submit found the queue full, was refused, and the queue is still full.
C3_Witness ==
    /\ Submitted
    /\ submit_hist.full
    /\ submit_ret[1] = FALSE
    /\ Len(fact_check_queue) = queue_max_size
    /\ submit_hist.job \notin {fact_check_queue[i] : i \in 1..Len(fact_check_queue)}

\* C6: no exception raised by the analysis, the delivery or the storage of a
\* job ends a worker: no worker task has ended with an exception, the worker
\* that caught one is running, a job whose delivery or storage failed has been
\* marked done and is no longer held by that worker, which is back at the
\* dequeue or has dequeued another job, and every job taken from the queue and
\* not marked done is held by a worker.
C6_WorkerSurvivesJobFailure ==
    /\ \A w \in WorkerIds : worker_tasks[w].status # "crashed"
    /\ unfinished_tasks
           = Len(fact_check_queue) + Cardinality({w \in WorkerIds : HoldsJob(w)})
    /\ last_caught.stage # "none" =>
           LET task == worker_tasks[last_caught.worker]
           IN /\ task.status = "running"
              /\ task.pc \in {"get", "analyze", "deliver", "store"}
              /\ last_caught.stage \in {"delivery", "storage"} =>
                     task.job # last_caught.job
              /\ last_caught.stage = "analysis" =>
                     (task.job = last_caught.job =>
                          (task.pc \in {"deliver", "store"}
                               /\ task.result = "analysis failed"))

\* The worker whose delivery of a job raised has dequeued a later job.
C6_Witness ==
    /\ last_caught.stage = "delivery"
    /\ worker_tasks[last_caught.worker].pc = "analyze"
    /\ worker_tasks[last_caught.worker].job > last_caught.job
    /\ worker_tasks[last_caught.worker].status = "running"

----------------------------------------------------------------------------
(* Claims about analyze_text, checked under SpecLLM *)

Returned == llm_pc = "returned"

\* C4: for every provider the factory builds, a result analyze_text returns
\* with verdict TRUE or FALSE was obtained with at least one source, and its
\* reasoning holds at least one [N] tag, every tag with 1 <= N <= the number
\* of sources.
C4_CertainVerdictsAreCited ==
    (Returned /\ llm_result.verdict \in {"TRUE", "FALSE"}) =>
        LET citations == CitationsFound(llm_result.reasoning)
        IN /\ llm_sources >= 1
           /\ citations # <<>>
           /\ \A i \in 1..Len(citations) :
                  IntOf(citations[i]) >= 1 /\ IntOf(citations[i]) <= llm_sources

\* C5: analyze_text never raises to its caller: whatever retrieval, the model
\* calls, the parsing and the validation come to, the call ends by returning a
\* VerificationResult, and when no model attempt succeeded its verdict is
\* UNVERIFIABLE.
C5_AnalyzeNeverRaises ==
    /\ llm_pc \in {"idle", "calling", "exhausted", "returned"}
    /\ Returned =>
           /\ llm_result.verdict \in Verdicts
           /\ llm_result.confidence \in 0..100
           /\ llm_result.statement = "claim"
           /\ (~llm_succeeded => llm_result.verdict = "UNVERIFIABLE")

\* The chat-completions provider returned after the last attempt on the last
\* of two models raised inside the try block.
C5_Witness ==
    /\ Returned
    /\ llm = "OpenRouterProvider"
    /\ ~llm_succeeded
    /\ Len(models_to_try) = 2
    /\ last_error = [kind |-> "Internal error", model |-> models_to_try[2]]
    /\ llm_result.verdict = "UNVERIFIABLE"

----------------------------------------------------------------------------
(* Claims about the token bucket, checked under SpecTB *)

\* The allowed checks of requester u in the current second number at most
\* quota; while they are fewer the next check of u is allowed, and once they
\* are quota it is rejected with the burst reason.
AllowsExactly(u, quota) ==
    /\ burst_hist.allowed[u] <= quota
    /\ burst_hist.allowed[u] < quota => CheckReason(u, NoGuild) = REASON_OK
    /\ burst_hist.allowed[u] = quota => CheckReason(u, NoGuild) = REASON_BURST

\* C11: with a bucket of 5 tokens refilled at 1 token per second and no
\* cooldown, a requester without a bucket is allowed 5 checks in one second
\* and its 6th check in that second is rejected with the burst reason; a
\* requester that emptied its bucket and waited one second is allowed exactly
\* one further check.
C11_BurstOfFive ==
    (rate_limits = BurstLimits /\ bucket_refill_rate = 1) =>
        \A u \in Users :
            /\ burst_hist.waited[u] = "cold start" => AllowsExactly(u, 5)
            /\ burst_hist.waited[u] = "one second after empty" => AllowsExactly(u, 1)

\* Requester 1 emptied its bucket in second 0, was allowed one check in
\* second 1, and its next check there was rejected with the burst reason.
C11_Witness ==
    /\ rate_limits = BurstLimits
    /\ now = 1
    /\ burst_hist.waited[1] = "one second after empty"
    /\ burst_hist.allowed[1] = 1
    /\ token_buckets[1] = <<0, 1>>
    /\ check_ret = <<FALSE, REASON_BURST>>

(* The chat-completions orchestrator *)

Orchestrating == llm = "OpenRouterProvider" /\ llm_pc \notin {"idle"} /\ llm_sources > 0

\* The configured models: the primary, then the fallbacks.
Configured == <<llm_config.model>> \o llm_config.fallback_models

\* The place of model m in sequence seq: the index of its first occurrence.
PlaceIn(seq, m) == CHOOSE i \in 1..Len(seq) : seq[i] = m /\ \A j \in 1..(i - 1) : seq[j] # m

\* The number of calls the log holds for model m.
CallsOf(m) == Cardinality({i \in 1..Len(attempt_log) : attempt_log[i].model = m})

\* The chain is the configured models without repetition, each at the place
\* of its first occurrence.
ChainIsDedupedConfig ==
    /\ models_to_try[1] = llm_config.model
    /\ {models_to_try[i] : i \in 1..Len(models_to_try)}
           = {Configured[i] : i \in 1..Len(Configured)}
    /\ \A i, j \in 1..Len(models_to_try) :
           i < j => /\ models_to_try[i] # models_to_try[j]
                    /\ PlaceIn(Configured, models_to_try[i])
                           < PlaceIn(Configured, models_to_try[j])

\* C12: the chat-completions orchestrator tries the chain (the primary, then
\* the fallbacks, without repetition, first occurrences kept) strictly in
\* order: every call before the latest one failed, a model is called only
\* after each earlier model of the chain was called, and no call goes back to
\* an earlier model.
C12_ChainInOrder ==
    Orchestrating =>
        /\ ChainIsDedupedConfig
        /\ \A i \in 1..Len(attempt_log) :
              /\ i < Len(attempt_log) => attempt_log[i].outcome # "ok"
              /\ \E k \in 1..Len(models_to_try) : models_to_try[k] = attempt_log[i].model
              /\ \A k \in 1..(PlaceIn(models_to_try, attempt_log[i].model) - 1) :
                    \E h \in 1..(i - 1) : attempt_log[h].model = models_to_try[k]
              /\ \A j \in 1..Len(attempt_log) :
                    i < j => PlaceIn(models_to_try, attempt_log[i].model)
                                 <= PlaceIn(models_to_try, attempt_log[j].model)

\* The primary is repeated among two fallbacks, the chain has two models, and
\* the second model was called after two failed calls of the first.
C12_Witness ==
    /\ Orchestrating
    /\ Len(llm_config.fallback_models) = 2
    /\ llm_config.fallback_models[1] = llm_config.model
    /\ Len(models_to_try) = 2
    /\ Len(attempt_log) = 3
    /\ attempt_log[2].model = models_to_try[1]
    /\ attempt_log[3].model = models_to_try[2]

\* The failures the attempt loop answers with `continue`.
TransientOutcomes == {"5xx", "429", "invalid JSON", "no choices"}

\* The loops stand at the call numbered n of the model at place k of the chain.
StandsAt(k, n) == llm_pc = "calling" /\ model_idx = k /\ attempt = n

\* The loops have left the model at place k: they stand at the first call of
\* the next model or, after the last model, they are over.
LeftModel(k) ==
    IF k < Len(models_to_try) THEN StandsAt(k + 1, 1) ELSE llm_pc = "exhausted"

\* C13: a transient failure (status 500 or above, status 429, a body that is
\* not JSON, an envelope without choices) is retried on the same model until
\* the model has had 2 calls; a client error (any other status that is not
\* 200) leaves the model after that call, and the next model is called next.
C13_RetryOrAbandon ==
    (Orchestrating /\ attempt_log # <<>> /\ llm_pc \in {"calling", "exhausted"}) =>
        LET m == attempt_log[Len(attempt_log)].model
            k == PlaceIn(models_to_try, m)
        IN /\ \A i \in 1..Len(models_to_try) :
                 CallsOf(models_to_try[i]) <= max_retries_per_model
           /\ last_outcome \in TransientOutcomes =>
                 IF CallsOf(m) < max_retries_per_model
                 THEN StandsAt(k, CallsOf(m) + 1)
                 ELSE LeftModel(k)
           /\ last_outcome = "4xx" => LeftModel(k)
           /\ \A i \in 1..(Len(attempt_log) - 1) :
                 attempt_log[i].outcome = "4xx"
                     => attempt_log[i + 1].model # attempt_log[i].model

\* The first model failed transiently, was called again and answered with a
\* client error; the loops stand at the first call of the second model.
C13_Witness ==
    /\ Orchestrating
    /\ Len(attempt_log) = 2
    /\ attempt_log[1] = [model |-> models_to_try[1], outcome |-> "failed"]
    /\ attempt_log[2] = [model |-> models_to_try[1], outcome |-> "4xx"]
    /\ last_outcome = "4xx"
    /\ StandsAt(2, 1)

\* The model of the latest call.
LastCalled == attempt_log[Len(attempt_log)].model

\* C14: the first call that returns HTTP 200 with a parseable envelope ends
\* the orchestration: the result carries the model of that call, not the
\* configured primary, and no model is called after it.
C14_AcceptedEnvelopeEnds ==
    (Orchestrating /\ last_outcome \in {"ok", "content raised"}) =>
        /\ llm_pc = "returned"
        /\ llm_succeeded
        /\ llm_result.model_name = LastCalled

\* The models the log holds, each once, in the order of their first calls.
AttemptedModels == Dedupe([i \in 1..Len(attempt_log) |-> attempt_log[i].model])

\* The error text analyze_text keeps for a failed call.
ErrorTextOf(observed) ==
    CASE observed \in {"5xx", "429"} -> "Provider Error"
      [] observed = "4xx" -> "Client Error"
      [] observed = "invalid JSON" -> "API returned invalid JSON"
      [] observed = "no choices" -> "API response missing 'choices'"
      [] OTHER -> "Internal error"

\* Every call failed and analyze_text returned.
ChainFailed == Orchestrating /\ llm_pc = "returned" /\ ~llm_succeeded

\* C15: when every call of every model fails the result is UNVERIFIABLE and
\* its reasoning names the models called, in chain order, and the error of the
\* last failed call; the outcome of the health probe gives the diagnostic, the
\* last part of the reasoning, and nothing else of the result.
C15_TerminalResult ==
    ChainFailed =>
        /\ llm_result.verdict = "UNVERIFIABLE"
        /\ \A i \in 1..Len(attempt_log) : attempt_log[i].outcome # "ok"
        /\ AttemptedModels = models_to_try
        /\ SubSeq(llm_result.reasoning, 1, Len(llm_result.reasoning) - 1)
               = <<"Failed after trying models ">> \o AttemptedModels
                    \o <<". Last error: ", ErrorTextOf(last_outcome), LastCalled,
                         "Diagnostic: ">>
        /\ llm_result.reasoning[Len(llm_result.reasoning)] \in HealthStatuses

\* Two models were called, the last call got a client error, and the health
\* probe timed out.
C15_Witness ==
    /\ ChainFailed
    /\ Len(models_to_try) = 2
    /\ Len(attempt_log) = 3
    /\ last_outcome = "4xx"
    /\ llm_result.reasoning[Len(llm_result.reasoning)] = "Endpoint check timed out (5s)."

\* The error texts analyze_text keeps for failed calls.
ErrorTexts == {ErrorTextOf(o) : o \in {"5xx", "4xx", "invalid JSON", "no choices", "raised"}}

\* The chain is [A, B] and every call of A so far returned a status of 500
\* or above.
FirstAlwaysServerError ==
    /\ Orchestrating
    /\ Len(models_to_try) = 2
    /\ \A i \in 1..Len(attempt_log) :
          attempt_log[i].model = models_to_try[1] => attempt_log[i].outcome = "5xx"

\* C16: with the chain [A, B] and every call of A returning status 500, B is
\* called only after A has had all its calls; if B then succeeds the result
\* carries B as its model and its reasoning holds none of the errors kept
\* for A.
C16_FallbackAfterServerErrors ==
    FirstAlwaysServerError =>
        /\ (model_idx = 2 \/ CallsOf(models_to_try[2]) > 0) =>
              /\ CallsOf(models_to_try[1]) = max_retries_per_model
              /\ \A i \in 1..max_retries_per_model :
                    attempt_log[i].model = models_to_try[1]
        /\ (llm_succeeded /\ LastCalled = models_to_try[2]) =>
              /\ llm_result.model_name = models_to_try[2]
              /\ \A i \in 1..Len(llm_result.reasoning) :
                    llm_result.reasoning[i] \notin ErrorTexts

\* A returned status 500 twice, then B gave the result.
C16_Witness ==
    /\ FirstAlwaysServerError
    /\ Len(attempt_log) = 3
    /\ attempt_log[1] = [model |-> models_to_try[1], outcome |-> "5xx"]
    /\ attempt_log[2] = [model |-> models_to_try[1], outcome |-> "5xx"]
    /\ attempt_log[3] = [model |-> models_to_try[2], outcome |-> "ok"]
    /\ llm_succeeded
    /\ llm_result.model_name = models_to_try[2]
    /\ llm_result.model_name # llm_config.model

(* Analyses without evidence *)

\* The retrieval of the analysis gave no source: there is no search manager,
\* the search raised, or it returned an empty list.
NoEvidence == llm_retrieval # NoRetrieval /\ llm_retrieval[2] = 0

\* C17: when retrieval gives no evidence (an empty list, a retrieval error, no
\* retrieval configured) the result is UNVERIFIABLE with confidence 0.1 and
\* no model is called.
C17_NoEvidenceNoCall ==
    NoEvidence =>
        /\ llm_pc = "returned"
        /\ llm_result.verdict = "UNVERIFIABLE"
        /\ llm_result.confidence = 10
        /\ attempt_log = <<>>
        /\ ~llm_succeeded

\* The search raised and the analysis of a provider returned.
C17_Witness ==
    /\ llm_retrieval = <<"search raised", 0>>
    /\ llm = "OpenRouterProvider"
    /\ llm_pc = "returned"
    /\ llm_result.sources = 0

(* Results handed to delivery *)

\* The verdict is one of the four values, the confidence lies in [0, 1], and
\* a record that failed validation is UNVERIFIABLE with confidence at most 0.15.
WellFormedResult(result) ==
    /\ result.verdict \in {"TRUE", "FALSE", "MIXED", "UNVERIFIABLE"}
    /\ result.confidence >= 0 /\ result.confidence <= 100
    /\ ~result.validation_passed =>
          /\ result.verdict = "UNVERIFIABLE"
          /\ result.confidence <= 15

\* C18: every VerificationResult handed to delivery (a model's answer, the
\* validator's downgrade, the result without sources, the terminal result of
\* a failed chain, the worker's fallback) has one of the four verdicts and a
\* confidence in [0, 1]; every result that failed validation is UNVERIFIABLE
\* with confidence at most 0.15.
C18_DeliveredResultsWellFormed ==
    /\ Returned => WellFormedResult(llm_result)
    /\ \A exc \in ExceptionKinds : WellFormedResult(worker_fallback_result(exc))

\* A model's answer was downgraded by the validator and returned.
C18_Witness ==
    /\ Returned
    /\ llm_succeeded
    /\ ~llm_result.validation_passed
    /\ llm_result.confidence = 15
    /\ last_outcome = "ok"

(* Claims about citation ranges, checked under SpecVC *)

\* The text has a tag from position i to position j: "[", digits, "]".
TagAt(text, i, j) ==
    /\ i + 1 < j
    /\ text[i] = "["
    /\ text[j] = "]"
    /\ \A k \in (i + 1)..(j - 1) : text[k] \in Digits

\* C19: validate reports a violation for every citation tag [N] with N below
\* 1 or above the number of sources, so a record citing [3] with two sources
\* is downgraded even when it also cites [1].
C19_OutOfRangeIsViolation ==
    Validated =>
        \A i, j \in 1..Len(v_in.reasoning) :
            TagAt(v_in.reasoning, i, j) =>
                LET digits == SubSeq(v_in.reasoning, i + 1, j - 1)
                IN (IntOf(digits) < 1 \/ IntOf(digits) > v_sources) =>
                      /\ \E e \in 1..Len(v_out.validation_errors) :
                            v_out.validation_errors[e] = ErrOutOfRange(digits, v_sources)
                      /\ v_out.validation_passed = FALSE
                      /\ v_out.verdict = "UNVERIFIABLE"

\* A TRUE record citing [1] and then [3] with two sources was downgraded for
\* the second tag alone.
C19_Witness ==
    /\ Validated
    /\ v_sources = 2
    /\ v_in.verdict = "TRUE"
    /\ v_in.reasoning = <<"[", "1", "]", "[", "3", "]">>
    /\ v_out.verdict = "UNVERIFIABLE"
    /\ v_out.validation_passed = FALSE
    /\ v_out.validation_errors = <<"Citation [3] out of range (have 2 sources)">>

(* Claims about _parse_llm_response, checked under SpecP *)

Parsed == parse_out[1] # "none"

\* C20: _parse_llm_response returns a structured record and never raises,
\* for every raw text of a model, a text that is valid JSON but not an object
\* (a list, a number, a string, null) included; when the direct parse, the
\* brace-substring parse and every repair fail, the record is the fixed
\* fallback (UNVERIFIABLE, 0.1).
C20_ParserNeverRaises ==
    Parsed =>
        /\ parse_out[1] = "ok"
        /\ parse_out[2].verdict \in Verdicts
        /\ parse_in.kind = "garbage" => parse_out[2] = fallback_parse_result

(* Claims about the worker pool, checked under SpecPool *)

\* The worker tasks that are alive.
LiveWorkers == {w \in WorkerIds : worker_tasks[w].status = "running"}

\* C21: the number of live worker tasks is the same constant, 2, once
\* setup_hook has completed and after every reload_llm_provider, so never more
\* than 2 jobs are being processed at once.
C21_PoolSizeFixed ==
    Started =>
        /\ Cardinality(LiveWorkers) = 2
        /\ Cardinality({w \in WorkerIds : HoldsJob(w)}) <= 2

----------------------------------------------------------------------------
(* Claims about the callers of check and submit_fact_check, under SpecAdmit *)

\* C22: every job placed on the queue was preceded by a check for the job's
\* requester that returned allowed: no requester has more jobs placed on the
\* queue than allowed checks.
C22_EnqueuedWereAdmitted ==
    \A u \in Users : enqueued[u] <= admitted[u]

\* The last step of a handler was a check for a request without a guild.
CheckedDirectMessage ==
    /\ Called
    /\ admit_hist.checked
    /\ admit_hist.guild = NoGuild

\* C23: a request with no group is never rejected with the daily-limit reason
\* and never increments a group counter, on every handler that runs the check.
C23_NoGroupNoQuota ==
    CheckedDirectMessage =>
        /\ check_ret[2] # REASON_DAILY
        /\ guild_usage = admit_hist.usage

\* C27: the check of a handler runs from its read to its commit without a
\* suspension point, so of two requests of one requester that arrive within
\* one cooldown window, whatever handlers run in between, the second is not
\* allowed.
C27_OneAllowedPerWindow ==
    (Called /\ admit_hist.checked /\ check_hist.in_window) => ~check_ret[1]

\* The last check of a handler was allowed.
AllowedByHandler == Called /\ admit_hist.checked /\ check_ret[1]

\* The three changes of an allowed check, and the buckets and counters it
\* leaves alone when no sweep is due.
ThreeChanges ==
    LET found == admit_hist.commit
        u == found.user
        key == OrZero(admit_hist.guild)
    IN /\ token_buckets[u] = <<found.refilled - 1, now>>
       /\ \E i \in 1..Len(user_cooldowns) :
             user_cooldowns[i] = [user |-> u, expires |-> now + user_cooldown]
       /\ DOMAIN token_buckets = (DOMAIN found.buckets) \cup {u}
       /\ \A v \in (DOMAIN found.buckets) \ {u} : token_buckets[v] = found.buckets[v]
       /\ check_hist.sweep = <<>> =>
             /\ guild_usage = [admit_hist.usage EXCEPT ![key] = @ + 1]
             /\ guild_usage_reset_ts = found.reset_ts

\* C28: an allowed check changes exactly three things: the bucket of the
\* requester becomes (refilled tokens - 1, now), the cooldown entry of the
\* requester is started, and the counter of the group of the request goes up
\* by 1; the buckets and the live cooldown entries of the other requesters, and
\* when no sweep is due the counters of the other groups and the timestamp of
\* the last sweep, are as they were.
C28_AllowedChangesThreeThings ==
    AllowedByHandler =>
        /\ ThreeChanges
        /\ \A v \in admit_hist.commit.cooling \ {admit_hist.commit.user} :
              HasCooldownEntry(v)

\* The same without the cooldown entries of the other requesters.
C28_BucketsAndCounters == AllowedByHandler => ThreeChanges

----------------------------------------------------------------------------
(* Claims about the order of the jobs, checked under SpecPool *)

\* The jobs of the gets, in the order of the gets.
JobsTaken == [i \in 1..Len(dequeued) |-> dequeued[i][2]]

\* The place of a job in the order of the puts.
PutPlace(job) == CHOOSE i \in 1..Len(queue_log) : queue_log[i] = job

\* C24: jobs leave the queue in exactly the order they were put on it (the
\* jobs taken so far, followed by the jobs still queued, are the jobs put, in
\* the order of the puts), so the jobs taken by any single worker are in the
\* order of the puts, with reloads of the pool between them or not.
C24_FirstInFirstOut ==
    /\ JobsTaken \o fact_check_queue = queue_log
    /\ \A i, j \in 1..Len(dequeued) :
          (i < j /\ dequeued[i][1] = dequeued[j][1])
              => PutPlace(dequeued[i][2]) < PutPlace(dequeued[j][2])

\* One worker has taken two jobs, and another worker the job put between them.
C24_Witness ==
    /\ Len(dequeued) = 3
    /\ dequeued[1][1] = dequeued[3][1]
    /\ dequeued[2][1] # dequeued[1][1]

----------------------------------------------------------------------------
(* Claims about what a worker does with a job, checked under SpecPool *)

\* The worker holds the job and awaits its analysis.
InAnalysis(job) ==
    \E w \in WorkerIds : /\ worker_tasks[w].status = "running"
                         /\ worker_tasks[w].pc = "analyze"
                         /\ worker_tasks[w].job = job

\* C25 amended: every job a worker has taken from the queue, and whose
\* processing was not cancelled, is in analysis or has had a result handed to
\* delivery; when the analysis raises, the result handed to delivery is the
\* UNVERIFIABLE result the worker builds; a worker that delivers or stores holds
\* such a result. When delivery itself raises, the job ends there, without
\* storage.
C25_ResultHandedToDelivery ==
    /\ \A i \in 1..Len(dequeued) :
          \/ InAnalysis(dequeued[i][2])
          \/ dequeued[i][2] \in handed
          \/ dequeued[i][2] \in abandoned
    /\ \A w \in WorkerIds :
          worker_tasks[w].pc \in {"deliver", "store"} =>
              /\ worker_tasks[w].job \in handed
              /\ worker_tasks[w].result \in {"analysis", "analysis failed"}
    /\ last_caught.stage = "analysis" =>
          /\ last_caught.job \in handed
          /\ \A w \in WorkerIds :
                worker_tasks[w].job = last_caught.job =>
                    worker_tasks[w].result = "analysis failed"
    /\ worker_fallback_result("Exception").verdict = "UNVERIFIABLE"
    /\ WellFormedResult(worker_fallback_result("Exception"))
    /\ last_caught.stage = "delivery" =>
          \A w \in WorkerIds : worker_tasks[w].job # last_caught.job

\* A worker is storing the result it built for an analysis that raised, after
\* a reload cancelled the processing of another job.
C25_Witness ==
    /\ abandoned # {}
    /\ \E w \in WorkerIds : /\ worker_tasks[w].pc = "store"
                            /\ worker_tasks[w].result = "analysis failed"
                            /\ worker_tasks[w].job \notin abandoned

\* C25 as stated: besides, no failure after the get leaves a job without a
\* delivered result.
C25_EveryJobDelivered ==
    /\ C25_ResultHandedToDelivery
    /\ last_caught.stage # "delivery"

\* C26: storage is attempted only after the delivery of the same job has
\* returned (a worker holds what delivery returned exactly while it stores); a
\* failure of the storage takes nothing back of what was handed to delivery,
\* and the worker that met it has not stopped: it runs, unless a reload
\* cancelled it since. No worker task ends with an exception.
C26_StorageFailureIsContained ==
    /\ \A w \in WorkerIds :
          /\ worker_tasks[w].pc = "store" =>
                /\ worker_tasks[w].message = "message or None"
                /\ worker_tasks[w].job \in handed
          /\ worker_tasks[w].pc # "store" => worker_tasks[w].message = "no value"
    /\ last_caught.stage = "storage" =>
          /\ last_caught.job \in handed
          /\ worker_tasks[last_caught.worker].status \in {"running", "cancelled"}
    /\ \A w \in WorkerIds : worker_tasks[w].status # "crashed"

\* The storage of a job failed, and the same worker has since taken a later
\* job, has delivered its result and stores it.
C26_Witness ==
    /\ last_caught.stage = "storage"
    /\ worker_tasks[last_caught.worker].pc = "store"
    /\ worker_tasks[last_caught.worker].message = "message or None"
    /\ worker_tasks[last_caught.worker].job > last_caught.job

----------------------------------------------------------------------------
(* Claims about the confidence the parser returns, checked under SpecPC *)

ConfidenceParsed == conf_out # NotNormalized

\* C29: on every parse path, an integer confidence above 1 is divided by 100
\* before it is clamped (87 gives 0.87), every numeric confidence ends in
\* [0, 1] (a negative one gives 0, an integer above 100 gives 1), and a missing
\* confidence or one that is a string or null gives 0.0.
C29_ConfidenceNormalized ==
    ConfidenceParsed =>
        LET token == conf_in.token
            out == conf_out[1]
        IN /\ (token.type = "int" /\ token.val > 1) => out = Min(token.val, 100)
           /\ token.type \in {"int", "decimal"} =>
                 /\ out >= 0 /\ out <= 100
                 /\ token.val < 0 => out = 0
           /\ (token.type = "int" /\ token.val > 100) => out = 100
           /\ token.type \in {"absent", "str", "null"} => out = 0

\* The same on the paths that end in json.loads.
C29_OnLoadedObjects ==
    (ConfidenceParsed /\ conf_in.path # "extracted") => C29_ConfidenceNormalized

----------------------------------------------------------------------------
(* Claims about _classify_tier, checked under SpecT *)

Classified == tier_out # NoTier

\* The domain matches an entry of the tier.
MatchesTier(domain, tier) ==
    CASE tier = 1 -> \E i \in 1..Len(domain) : domain[i] \in TIER_1_DOMAINS
      [] tier = 2 -> \/ \E i \in 1..Len(domain) : domain[i] \in TIER_2_DOMAINS
                     \/ Len(domain) > 0 /\ domain[Len(domain)] \in TIER_2_SUFFIXES
      [] tier = 3 -> \E i \in 1..Len(domain) : domain[i] \in TIER_3_DOMAINS
      [] tier = 4 -> \E i \in 1..Len(domain) : domain[i] \in TIER_4_DOMAINS

\* The reference: the first tier, in the order 1, 2, 3, 4, that the domain
\* matches, and 3 when it matches none.
ReferenceTier(domain) ==
    LET matching == {tier \in 1..4 : MatchesTier(domain, tier)}
    IN IF matching = {} THEN 3
       ELSE CHOOSE tier \in matching : \A other \in matching : tier <= other

\* C30 amended: for every URL that is not empty and that urlparse accepts,
\* _classify_tier is the reference on the domain of the URL: a domain matching
\* two tiers gets the lower tier number, and a domain matching no set, that of
\* a URL without host part too, gets tier 3; an empty URL and a URL that
\* urlparse rejects get tier 4; the result is always in 1..4.
C30_FirstMatchOrFour ==
    Classified =>
        /\ tier_out[1] \in 1..4
        /\ tier_in.kind = "parsed" =>
              tier_out[1] = ReferenceTier(DomainOf(tier_in.netloc))
        /\ tier_in.kind \in {"empty", "unparsable"} => tier_out[1] = 4

\* A host name in capitals behind "www.", with a domain of tier 4 and, after
\* it, a domain of tier 1, got tier 1.
C30_Witness ==
    /\ Classified
    /\ tier_in.netloc = <<"www.", "X.COM", "dw.com">>
    /\ tier_out[1] = 1

\* C30 as stated: _classify_tier is the reference for every URL, and every URL
\* whose domain matches no set, the empty URL too, gets tier 3.
C30_FirstMatchAlways ==
    Classified =>
        /\ tier_out[1] \in 1..4
        /\ tier_out[1] = ReferenceTier(DomainOf(tier_in.netloc))

----------------------------------------------------------------------------
(* Claims about a refused submit, checked under SpecRefuse *)

\* The last submit_fact_check found the queue full and put no job on it.
SubmitRefused ==
    /\ submit_ret = <<FALSE, QUEUE_FULL_REASON>>
    /\ \A i \in 1..Len(fact_check_queue) : fact_check_queue[i] # submit_hist.job

\* The last handler step with a check made an allowed check.
CommittedByHandler == admit_hist.checked /\ admit_hist.commit # NoCommit

\* The last handler step was the submit of a handler whose check had been
\* allowed before it awaited its placeholder.
SubmittedAfterPlaceholder == ~admit_hist.checked /\ admit_hist.commit # NoCommit

\* C31: admission is committed before the enqueue and is not rolled back. When
\* the check of a handler allows a request and the submit finds the queue
\* full, no job is queued and the token stays spent (the bucket of the
\* requester holds the refilled tokens less one), the cooldown entry of the
\* requester stays in the cache and the counter of the group stays one above
\* what the check found; when the submit comes after the await of the
\* placeholder, it leaves the buckets, the cooldown entries and the counters
\* as that step found them.
C31_AdmissionNotRolledBack ==
    LET found == admit_hist.commit
        u == found.user
        key == OrZero(admit_hist.guild)
    IN /\ (CommittedByHandler /\ SubmitRefused) =>
             /\ u \in DOMAIN token_buckets
             /\ token_buckets[u][1] = found.refilled - 1
             /\ \E i \in 1..Len(user_cooldowns) : user_cooldowns[i].user = u
             /\ guild_usage[key] = admit_hist.usage[key] + 1
       /\ (SubmittedAfterPlaceholder /\ SubmitRefused) =>
             /\ token_buckets = found.buckets
             /\ \A v \in found.cooling :
                   \E i \in 1..Len(user_cooldowns) : user_cooldowns[i].user = v
             /\ guild_usage = admit_hist.usage
             /\ guild_usage_reset_ts = found.reset_ts

\* Three handlers ran and each was allowed, none waits for its placeholder,
\* two jobs are queued, and the last one, of the message listener or of the
\* setup cog, was refused by the full queue in the step of its check.
C31_Witness ==
    /\ CommittedByHandler
    /\ SubmitRefused
    /\ Called
    /\ check_ret[1]
    /\ handler_calls = 3
    /\ pending = {}
    /\ admitted[1] = 3
    /\ enqueued[1] = 2
    /\ Len(fact_check_queue) = queue_max_size
    /\ admit_hist.guild \in GuildIds

----------------------------------------------------------------------------
(* Claims about the tracked worker list, checked under SpecShutdown *)

\* C32: every running worker task is held in the tracked worker list at all
\* times, and after close() no worker dequeues another job, for every
\* interleaving, two reload_llm_provider calls that overlap at their await
\* included.
C32_WorkersTrackedAndStopped ==
    /\ RunningTasks \subseteq tracked
    /\ ~got_after_close

----------------------------------------------------------------------------
(* Claims about the daily quota over time, checked under SpecWindow *)

\* The allowed checks of guild g in the 24 hours that start at time t.
AllowedInDayFrom(g, t) ==
    Cardinality({i \in 1..Len(allowed_log[g]) :
                    t <= allowed_log[g][i] /\ allowed_log[g][i] < t + DAY_SECONDS})

\* C33: for every group, the number of allowed checks in any interval of 24
\* hours never exceeds the daily limit, whatever the sequence of checks and
\* wherever the reset falls.
C33_RollingDailyLimit ==
    \A g \in GuildIds :
        \A i \in 1..Len(allowed_log[g]) :
            AllowedInDayFrom(g, allowed_log[g][i]) <= daily_guild_limit

----------------------------------------------------------------------------
(* Claims about the bucket behind the cooldown, checked under SpecGate *)

\* The cooldown refills at least one token, and the bucket holds at least one.
CooldownRefillsAToken ==
    /\ user_cooldown * bucket_refill_rate >= 1
    /\ bucket_tokens >= 1

\* The check was called inside the cooldown window of its requester, whose
\* cooldown entry was gone: the entry had been evicted.
EntryWasEvicted == check_hist.in_window /\ ~check_hist.has_entry

----------------------------------------------------------------------------
(* Claims about the cooldown entries, checked under SpecRL *)

\* C35: the cooldown entry of a requester is removed only by the expiry of its
\* time-to-live: whatever checks of other requesters are allowed, a requester
\* that is inside the cooldown window of its last allowed check has a live
\* entry in the cache.
C35_EntryLivesItsTTL ==
    \A u \in Users : InCooldownWindow(u) => HasCooldownEntry(u)

----------------------------------------------------------------------------
(* Claims about what a reload loses, checked under SpecReconfig *)

\* The jobs the running workers hold.
JobsHeld == {worker_tasks[w].job : w \in {v \in WorkerIds : HoldsJob(v)}}

\* The jobs that wait are the jobs put and not yet taken, in the order of the
\* puts; no job is taken twice; the abandoned jobs had been taken and no
\* worker holds them; task_done has been called once for every job taken and
\* no longer held, and for no other.
OnlyInFlightLost ==
    /\ fact_check_queue = SubSeq(queue_log, Len(dequeued) + 1, Len(queue_log))
    /\ \A i, j \in 1..Len(dequeued) : dequeued[i][2] = dequeued[j][2] => i = j
    /\ abandoned \subseteq ({dequeued[i][2] : i \in 1..Len(dequeued)} \ JobsHeld)
    /\ Len(queue_log) - unfinished_tasks = Len(dequeued) - Cardinality(JobsHeld)

\* C36: a reload loses only in-flight work: the jobs waiting in the queue stay
\* there in their order, at most the one job of each cancelled worker is
\* abandoned, task_done is called exactly once for every job dequeued, and
\* the reload has started the workers that process the waiting jobs.
C36_ReloadLosesOnlyInFlight ==
    /\ OnlyInFlightLost
    /\ (Started /\ fact_check_queue # <<>>) => LiveWorkers # {}

\* The same without the new workers.
C36_QueueSurvivesReload == OnlyInFlightLost

----------------------------------------------------------------------------
(* Claims about progress, checked under FairQ *)

\* The job was put on the queue.
Enqueued(job) == \E i \in 1..Len(queue_log) : queue_log[i] = job

\* A worker took the job from the queue and has finished with it.
Finished(job) ==
    /\ \E i \in 1..Len(dequeued) : dequeued[i][2] = job
    /\ \A w \in WorkerIds : HoldsJob(w) => worker_tasks[w].job # job

\* C37: under fair scheduling, with no shutdown and no reload and with every
\* awaited call returning or raising, every job that was put on the queue is
\* eventually taken by a worker and its processing eventually finishes.
C37_EveryJobFinishes ==
    \A job \in 1..MaxSubmits : Enqueued(job) ~> Finished(job)

\* The queue was full when the third job was refused, and the two jobs that
\* waited have both been taken and finished.
C37_Witness ==
    /\ submit_calls = 3
    /\ Len(queue_log) = 2
    /\ \A i \in 1..Len(queue_log) : Finished(queue_log[i])
    /\ unfinished_tasks = 0

----------------------------------------------------------------------------
(* Claims about the cost of the chat-completions analyze_text, under SpecLLM *)

\* The distinct model names of the configured chain.
ChainModels ==
    {llm_config.model}
        \cup {llm_config.fallback_models[i] : i \in 1..Len(llm_config.fallback_models)}

\* C38: the chat-completions analyze_text makes at most 2 x k model calls for
\* a chain of k distinct models and at most one reachability probe, whatever
\* the backend answers; while it is still calling, the next call is within
\* that budget, so the loops end.
C38_BoundedCalls ==
    llm = "OpenRouterProvider" =>
        /\ Len(attempt_log) <= 2 * Cardinality(ChainModels)
        /\ health_checks <= 1
        /\ llm_pc = "calling" =>
              /\ Len(attempt_log) < 2 * Cardinality(ChainModels)
              /\ health_checks = 0
              /\ model_idx \in 1..Len(models_to_try)
              /\ attempt \in 1..max_retries_per_model
        /\ llm_pc = "exhausted" => health_checks = 0

\* A chain of two distinct models, one named twice, spent in full: four
\* calls that failed in different ways, then the probe and the terminal result.
C38_Witness ==
    /\ llm = "OpenRouterProvider"
    /\ llm_pc = "returned"
    /\ Len(llm_config.fallback_models) = 2
    /\ Cardinality(ChainModels) = 2
    /\ Len(attempt_log) = 4
    /\ attempt_log[1].outcome = "5xx"
    /\ attempt_log[2].outcome = "failed"
    /\ attempt_log[4].outcome = "5xx"
    /\ health_checks = 1
    /\ ~llm_succeeded

\* The chat-completions provider under fair scheduling: every call it awaits
\* returns or raises (the POST has a total timeout of 120 s, the probe of 5 s).
FairLLM == SpecLLM /\ WF_vars(NextLLM)

\* An analysis that was started returns.
C38_AnalysisReturns == (llm_pc = "calling") ~> (llm_pc = "returned")

----------------------------------------------------------------------------
(* Claims about unusable content, under SpecLLM *)

\* The latest call of the chat-completions provider returned a well-formed
\* envelope whose content is unusable.
UnusableAccepted ==
    /\ llm = "OpenRouterProvider"
    /\ last_content \in {"unparsed text", "uncited record"}

----------------------------------------------------------------------------
(* Claims about the stored buckets, under SpecRL *)

\* C40: with a capacity of at least 1, the token count stored for a requester
\* is at least 0 and at most capacity - 1, and the stored timestamp is the
\* time of that requester's latest allowed check; a requester has a stored
\* bucket exactly when one of its checks was allowed.
C40_StoredBucketInRange ==
    bucket_tokens >= 1 =>
        \A u \in Users :
            /\ u \in DOMAIN token_buckets <=> last_allowed[u] >= 0
            /\ u \in DOMAIN token_buckets =>
                  /\ token_buckets[u][1] >= 0
                  /\ token_buckets[u][1] <= bucket_tokens - 1
                  /\ token_buckets[u][2] = last_allowed[u]

\* One requester spent its last token in a second allowed check, after the
\* first second, another holds capacity - 1 since the start, and the check
\* just made was rejected and wrote nothing.
C40_Witness ==
    /\ bucket_tokens >= 1
    /\ \E u, v \in DOMAIN token_buckets :
          /\ token_buckets[u][1] = 0
          /\ token_buckets[u][2] >= 1
          /\ token_buckets[v][1] = bucket_tokens - 1
          /\ token_buckets[v][2] = 0
    /\ Called
    /\ ~check_ret[1]

====
